---- MODULE Spec2Model ----
(***************************************************************************)
(* Model of the page-object interaction layer of the flight-booking UI     *)
(* test suite (src/pageObject/page_objects.py).                            *)
(*                                                                         *)
(* The browser driver is the environment: every driver call (wait_for,     *)
(* click, clear, fill, keyboard.press, wait_for_timeout, page.locator,     *)
(* text_content, screenshot, mkdir) either completes ("ok") or raises      *)
(* ("fault"); the outcome is chosen nondeterministically at the call.      *)
(*                                                                         *)
(* The small wrappers (wait_for_element, safe_click, safe_fill,            *)
(* take_screenshot, close_date_picker, ...) are operators over the         *)
(* outcomes of the driver calls they make; the larger operations           *)
(* (select_one_way, select_origin, select_dates, select_passengers,        *)
(* perform_complete_booking_flow) are executed step by step, one action    *)
(* per driver-level step, with ip the position inside the operation and    *)
(* pc the position inside perform_complete_booking_flow.                   *)
(***************************************************************************)
EXTENDS Integers, Sequences, FiniteSets, TLC

\* ------------------------------------------------------------------ bounds
MaxAdults == 3
MaxInfants == 2

\* ------------------------------------------------------- program constants
\* number of departure-day locator templates tried by select_dates
NumDepartureLocators == 4
\* number of return-day locator templates tried by select_dates
NumReturnLocators == 3

\* outcome of one driver call: it completes, or it raises
Outcome == {"ok", "fault"}

\* --------------------------------------------------------------- requests
\* a date string is the sequence of its characters; "" is the empty sequence
Date_15_Sept_2025 == <<"1", "5", " ", "S", "e", "p", "t", " ", "2", "0", "2", "5">>
Date_20_Sept_2025 == <<"2", "0", " ", "S", "e", "p", "t", " ", "2", "0", "2", "5">>

TripTypes == {"ONE_WAY", "round_trip"}
Origins == {"", "Hong Kong"}
Destinations == {"", "Tokyo"}
DepartureDates == {<<>>, Date_15_Sept_2025}
ReturnDates == {<<>>, Date_20_Sept_2025}

\* str.lower() on the trip types a request can carry
Lower(s) ==
  CASE s = "ONE_WAY" -> "one_way"
    [] s = "one_way" -> "one_way"
    [] s = "round_trip" -> "round_trip"
    [] OTHER -> s

\* dict.get(key, default)
Get(d, k, default) == IF k \in DOMAIN d THEN d[k] ELSE default

\* the requests perform_complete_booking_flow is driven with: every
\* combination of trip type (or no trip_type key: the default then applies),
\* origin, destination and dates with the default passenger counts, and every
\* passenger count on the round trip whose other fields are all filled in
BookingData ==
  [trip_type : TripTypes, origin : Origins, destination : Destinations,
   departure_date : DepartureDates, return_date : ReturnDates,
   adults : {1}, infants : {0}]
  \cup
  [origin : Origins, destination : Destinations,
   departure_date : DepartureDates, return_date : ReturnDates,
   adults : {1}, infants : {0}]
  \cup
  [trip_type : {"round_trip"}, origin : {"Hong Kong"}, destination : {"Tokyo"},
   departure_date : {Date_15_Sept_2025}, return_date : {Date_20_Sept_2025},
   adults : 0..MaxAdults, infants : 0..MaxInfants]

\* ------------------------------------------------------------ driver events
\* one driver action issued on the page, with its outcome; a fill carries
\* the text it writes
EvText(act, target, text, outcome) ==
  [act |-> act, target |-> target, text |-> text, outcome |-> outcome]

Ev(act, target, outcome) == EvText(act, target, "", outcome)

\* -------------------------------------------- resilient element operations
\* wait_for_element: locator.wait_for(state="visible") inside try/except;
\* w is the outcome of wait_for (a timeout is a raised fault)
wait_for_element(w) ==
  [ret |-> (w = "ok"), raised |-> FALSE]

\* safe_click without its try/except: a fault of the click propagates
safe_click_unguarded(target, w, c) ==
  LET vis == wait_for_element(w).ret
  IN  [ret    |-> vis /\ c = "ok",
       raised |-> vis /\ c # "ok",
       events |-> IF vis THEN <<Ev("click", target, c)>> ELSE <<>>]

\* safe_click: click issued only after the wait succeeded; any fault -> False
safe_click(target, w, c) ==
  LET vis == wait_for_element(w).ret
  IN  [ret    |-> vis /\ c = "ok",
       raised |-> FALSE,
       events |-> IF vis THEN <<Ev("click", target, c)>> ELSE <<>>]

\* safe_fill that writes the text without clearing the field first
safe_fill_noclear(target, text, w, cl, f) ==
  LET vis == wait_for_element(w).ret
  IN  [ret    |-> vis /\ f = "ok",
       raised |-> FALSE,
       events |-> IF ~vis THEN <<>> ELSE <<EvText("fill", target, text, f)>>]

\* safe_fill: clear, then fill, only after the wait succeeded
safe_fill(target, text, w, cl, f) ==
  LET vis == wait_for_element(w).ret
  IN  [ret    |-> vis /\ cl = "ok" /\ f = "ok",
       raised |-> FALSE,
       events |-> IF ~vis THEN <<>>
                  ELSE IF cl # "ok" THEN <<Ev("clear", target, cl)>>
                  ELSE <<Ev("clear", target, cl), EvText("fill", target, text, f)>>]

\* take_screenshot: mkdir of the screenshots directory, then page.screenshot,
\* all inside try/except; returns the path, or the empty string on any fault.
\* A path is modelled by the name the file is built from.
NoPath == <<>>

\* take_screenshot without its try/except: a driver fault propagates
take_screenshot_unguarded(name, mk, sh) ==
  [ret    |-> IF mk = "ok" /\ sh = "ok" THEN name ELSE NoPath,
   raised |-> (mk # "ok" \/ sh # "ok"),
   shots  |-> <<name>>]

take_screenshot(name, mk, sh) ==
  [ret    |-> IF mk = "ok" /\ sh = "ok" THEN name ELSE NoPath,
   raised |-> FALSE,
   shots  |-> <<name>>]

\* capture_on_failure that leaves the failure_ prefix out of the name
capture_on_failure_unprefixed(test_name, mk, sh) ==
  take_screenshot(test_name, mk, sh)

\* capture_on_failure: take_screenshot(f"failure_{test_name}")
capture_on_failure(test_name, mk, sh) ==
  take_screenshot(<<"failure">> \o test_name, mk, sh)

\* ------------------------------------------------- _extract_day_from_date
Contains(s, ch) == \E i \in 1..Len(s) : s[i] = ch

Min(S) == CHOOSE x \in S : \A y \in S : x <= y
Max(S) == CHOOSE x \in S : \A y \in S : x >= y

\* date_str.split()[0]: the first whitespace-separated token; IndexError when
\* the string holds nothing but whitespace
FirstToken(s) ==
  LET inked == {i \in 1..Len(s) : s[i] # " "}
      from == Min(inked)
      stops == {j \in from..Len(s) : s[j] = " "}
      upto == IF stops = {} THEN Len(s) ELSE Min(stops) - 1
  IN  IF inked = {} THEN [ret |-> <<>>, raised |-> TRUE]
      ELSE [ret |-> SubSeq(s, from, upto), raised |-> FALSE]

\* date_str.split('-')[-1]
LastField(s, sep) ==
  LET seps == {i \in 1..Len(s) : s[i] = sep}
  IN  IF seps = {} THEN s ELSE SubSeq(s, Max(seps) + 1, Len(s))

\* the last field taken as it is, without lstrip('0')
LStripZeros_none(s) == s

\* str.lstrip('0')
LStripZeros(s) ==
  LET kept == {i \in 1..Len(s) : s[i] # "0"}
  IN  IF kept = {} THEN <<>> ELSE SubSeq(s, Min(kept), Len(s))

extract_day_from_date(date_str) ==
  IF Contains(date_str, " ") THEN FirstToken(date_str)
  ELSE IF Contains(date_str, "-")
  THEN [ret |-> LStripZeros(LastField(date_str, "-")), raised |-> FALSE]
  ELSE [ret |-> date_str, raised |-> FALSE]

\* value of a local that has not been assigned yet
Unset == <<"unset">>

\* ------------------------------------------------------------------- state
VARIABLES
  booking_data,  \* the request given to perform_complete_booking_flow
  pc,            \* position inside perform_complete_booking_flow
  results,       \* the flow's result record
  exc,           \* message of the fault that left the primitive
  caught,        \* message of the fault caught by the primitive's own handler
  op,            \* the interaction primitive being executed ("none" if none)
  ip,            \* position inside the primitive
  idx,           \* loop index inside the primitive
  departure_selected, \* local of select_dates
  return_selected,    \* local of select_dates
  aria_text,          \* local of select_dates: the last live-region label read
  departure_day,      \* local of select_dates
  return_day,         \* local of select_dates
  ret,           \* how the primitive ended: "running", "true", "false", "raised"
  trace,         \* driver actions issued, and diagnostics printed, by the current primitive
  calls,         \* primitives invoked by the flow so far, with their outcome
  shots,         \* names of the screenshots requested so far
  given,         \* what the driver and the page give to an operation called on its own
  value,         \* what an operation called on its own returned
  session        \* the browser, context and page of the set_up fixture

vars == <<booking_data, pc, results, exc, caught, op, ip, idx, departure_selected,
          return_selected, aria_text, departure_day, return_day, ret, trace,
          calls, shots, given, value, session>>

\* the locals of the primitive being executed
locals == <<idx, departure_selected, return_selected, aria_text, departure_day,
            return_day>>

\* the locals of select_dates other than the loop index
flags == <<departure_selected, return_selected, aria_text, departure_day,
           return_day>>

\* no browser launched, no context, no page, no test run
NoSession ==
  [browser |-> "none", context |-> "none", page |-> "none",
   launched |-> 0, contexts |-> 0, pages |-> 0,
   faulted |-> "none", test |-> "none"]

Init ==
  /\ booking_data \in BookingData
  /\ pc = "step1"
  /\ results = [success |-> TRUE, steps_completed |-> <<>>,
                errors |-> <<>>, screenshots |-> <<>>]
  /\ exc = "none"
  /\ op = "none"
  /\ ip = "idle"
  /\ idx = 0
  /\ departure_selected = FALSE
  /\ return_selected = FALSE
  /\ aria_text = "unset"
  /\ departure_day = Unset
  /\ return_day = Unset
  /\ caught = "none"
  /\ ret = "none"
  /\ trace = <<>>
  /\ calls = <<>>
  /\ shots = <<>>
  /\ given = "none"
  /\ value = "none"
  /\ session = NoSession

\* ---------------------------------------------------- primitive call frames
\* the flow calls primitive `name`, which starts at position `start`
Call(name, start) ==
  /\ op' = name
  /\ ip' = start
  /\ idx' = 0
  /\ departure_selected' = FALSE
  /\ return_selected' = FALSE
  /\ aria_text' = "unset"
  /\ departure_day' = Unset
  /\ return_day' = Unset
  /\ caught' = "none"
  /\ ret' = "running"
  /\ trace' = <<>>
  /\ exc' = "none"
  /\ calls' = Append(calls, [name |-> name, ret |-> "running"])

\* the primitive returns the boolean b
Return(b) ==
  /\ ip' = "returned"
  /\ ret' = IF b THEN "true" ELSE "false"
  /\ calls' = [calls EXCEPT ![Len(calls)].ret = IF b THEN "true" ELSE "false"]
  /\ UNCHANGED <<op, exc, caught, locals>>

\* a fault with message msg leaves the primitive
Raise(msg) ==
  /\ ip' = "returned"
  /\ ret' = "raised"
  /\ exc' = msg
  /\ calls' = [calls EXCEPT ![Len(calls)].ret = "raised"]
  /\ UNCHANGED <<op, caught, locals>>

\* the primitive's own except block catches the fault msg and returns False
Fail(msg) ==
  /\ ip' = "returned"
  /\ ret' = "false"
  /\ caught' = msg
  /\ calls' = [calls EXCEPT ![Len(calls)].ret = "false"]
  /\ UNCHANGED <<op, exc, locals>>

\* the primitive moves to position p
Goto(p) ==
  /\ ip' = p
  /\ UNCHANGED <<op, exc, caught, locals, ret, calls>>

\* a fault with message msg is caught by the primitive's except block at p
Catch(p, msg) ==
  /\ ip' = p
  /\ caught' = msg
  /\ UNCHANGED <<op, exc, locals, ret, calls>>

\* the loop of the primitive goes on at position p with index i
Loop(p, i) ==
  /\ ip' = p
  /\ idx' = i
  /\ UNCHANGED <<op, exc, caught, flags, ret, calls>>

Emit(events) == trace' = trace \o events

\* print(msg): a diagnostic line the primitive writes
Log(msg) == Ev("log", msg, "ok")

\* --------------------------------------------- select_one_way / round_trip
TripOps == {"select_one_way", "select_round_trip"}

\* the text option and the label each operation clicks
\* select_round_trip copied from select_one_way with its option text left as is
TripOption_copied(o) == "text='One way'"

TripOption(o) == IF o = "select_one_way" THEN "text='One way'" ELSE "text='Return'"
TripLabel(o) == IF o = "select_one_way" THEN "trip_type_oneway" ELSE "trip_type_roundtrip"

\* probe for the dropdown toggle (bounded short wait)
trip_probe ==
  /\ op \in TripOps /\ ip = "probe"
  /\ \E w \in Outcome :
       IF wait_for_element(w).ret THEN Goto("toggle") ELSE Goto("label")
  /\ UNCHANGED <<trace>>
  /\ UNCHANGED <<booking_data, pc, results, shots>>
  /\ UNCHANGED <<given, value, session>>

\* safe_click on the toggle (result ignored), then page.locator for the option
trip_toggle ==
  /\ op \in TripOps /\ ip = "toggle"
  /\ \E w \in Outcome, c \in Outcome, l \in Outcome :
       /\ Emit(safe_click("trip_type_dropdown_button", w, c).events)
       /\ IF l = "ok" THEN Goto("option") ELSE Return(FALSE)
  /\ UNCHANGED <<booking_data, pc, results, shots>>
  /\ UNCHANGED <<given, value, session>>

\* the terminal click on the text option
trip_option ==
  /\ op \in TripOps /\ ip = "option"
  /\ \E w \in Outcome, c \in Outcome :
       LET r == safe_click(TripOption(op), w, c)
       IN  Emit(r.events) /\ Return(r.ret)
  /\ UNCHANGED <<booking_data, pc, results, shots>>
  /\ UNCHANGED <<given, value, session>>

\* the fallback click on the label
trip_label ==
  /\ op \in TripOps /\ ip = "label"
  /\ \E w \in Outcome, c \in Outcome :
       LET r == safe_click(TripLabel(op), w, c)
       IN  Emit(r.events) /\ Return(r.ret)
  /\ UNCHANGED <<booking_data, pc, results, shots>>
  /\ UNCHANGED <<given, value, session>>

select_trip_type == trip_probe \/ trip_toggle \/ trip_option \/ trip_label

\* ------------------------------------------ select_origin / select_destination
LocationOps == {"select_origin", "select_destination"}

\* the placeholder each operation clicks to open the search overlay
LocationField(o) ==
  IF o = "select_origin" THEN "departure_location_selector"
  ELSE "arrival_location_selector"

\* the text each operation types
LocationText(o) ==
  IF o = "select_origin" THEN Get(booking_data, "origin", "")
  ELSE Get(booking_data, "destination", "")

\* click the placeholder; a failed click returns False at once
location_open ==
  /\ op \in LocationOps /\ ip = "open"
  /\ \E w \in Outcome, c \in Outcome :
       LET r == safe_click(LocationField(op), w, c)
       IN  /\ Emit(r.events)
           /\ IF ~r.ret THEN Return(FALSE) ELSE Goto("settle")
  /\ UNCHANGED <<booking_data, pc, results, shots>>
  /\ UNCHANGED <<given, value, session>>

\* page.wait_for_timeout(1000)
location_settle ==
  /\ op \in LocationOps /\ ip = "settle"
  /\ \E t \in Outcome :
       IF t = "ok" THEN Goto("locate_input")
       ELSE Catch("handler", "wait_for_timeout")
  /\ UNCHANGED <<trace>>
  /\ UNCHANGED <<booking_data, pc, results, shots>>
  /\ UNCHANGED <<given, value, session>>

\* page.locator(...).first for the search input
location_locate_input ==
  /\ op \in LocationOps /\ ip = "locate_input"
  /\ \E l \in Outcome :
       IF l = "ok" THEN Goto("fill")
       ELSE Catch("handler", "locator")
  /\ UNCHANGED <<trace>>
  /\ UNCHANGED <<booking_data, pc, results, shots>>
  /\ UNCHANGED <<given, value, session>>

\* safe_fill of the search input; False falls through to `return False`
location_fill ==
  /\ op \in LocationOps /\ ip = "fill"
  /\ \E w \in Outcome, cl \in Outcome, f \in Outcome :
       LET r == safe_fill("search_input", LocationText(op), w, cl, f)
       IN  /\ Emit(r.events)
           /\ IF r.ret THEN Goto("suggestions") ELSE Return(FALSE)
  /\ UNCHANGED <<booking_data, pc, results, shots>>
  /\ UNCHANGED <<given, value, session>>

\* page.wait_for_timeout(2000), then page.locator(...).first for the suggestion
location_suggestions ==
  /\ op \in LocationOps /\ ip = "suggestions"
  /\ \E t \in Outcome, l \in Outcome :
       IF t # "ok" THEN Catch("handler", "wait_for_timeout")
       ELSE IF l # "ok" THEN Catch("handler", "locator")
       ELSE Goto("click_suggestion")
  /\ UNCHANGED <<trace>>
  /\ UNCHANGED <<booking_data, pc, results, shots>>
  /\ UNCHANGED <<given, value, session>>

\* a selection without the Enter fallback: a failed suggestion click is a failure
location_click_suggestion_no_fallback ==
  /\ op \in LocationOps /\ ip = "click_suggestion"
  /\ \E w \in Outcome, c \in Outcome :
       LET r == safe_click("first_suggestion", w, c)
       IN  /\ Emit(r.events)
           /\ Return(r.ret)
  /\ UNCHANGED <<booking_data, pc, results, shots>>
  /\ UNCHANGED <<given, value, session>>

\* safe_click on the first suggestion
location_click_suggestion ==
  /\ op \in LocationOps /\ ip = "click_suggestion"
  /\ \E w \in Outcome, c \in Outcome :
       LET r == safe_click("first_suggestion", w, c)
       IN  /\ Emit(r.events)
           /\ IF r.ret THEN Return(TRUE) ELSE Goto("enter")
  /\ UNCHANGED <<booking_data, pc, results, shots>>
  /\ UNCHANGED <<given, value, session>>

\* fallback: page.keyboard.press("Enter")
location_enter ==
  /\ op \in LocationOps /\ ip = "enter"
  /\ \E k \in Outcome :
       /\ Emit(<<Ev("press", "Enter", k)>>)
       /\ IF k = "ok" THEN Return(TRUE)
          ELSE Catch("handler", "keyboard.press")
  /\ UNCHANGED <<booking_data, pc, results, shots>>
  /\ UNCHANGED <<given, value, session>>

\* except Exception: page.keyboard.press("Escape"); return False
location_handler ==
  /\ op \in LocationOps /\ ip = "handler"
  /\ \E k \in Outcome :
       /\ Emit(<<Ev("press", "Escape", k)>>)
       /\ IF k = "ok" THEN Return(FALSE)
          ELSE Raise("keyboard.press")
  /\ UNCHANGED <<booking_data, pc, results, shots>>
  /\ UNCHANGED <<given, value, session>>

select_location ==
  \/ location_open \/ location_settle \/ location_locate_input
  \/ location_fill \/ location_suggestions \/ location_click_suggestion
  \/ location_enter \/ location_handler

\* ------------------------------------------------------- close_date_picker
\* l: page.locator of the close glyph; w, c: safe_click on it; e1: the Escape
\* press of the fallback branch; e2: the Escape press of the except handler
close_date_picker(l, w, c, e1, e2) ==
  LET called == <<Ev("call", "close_date_picker", "ok")>>
      r == safe_click("date_close_btn", w, c)
  IN  IF l # "ok"
      THEN [ret |-> FALSE, raised |-> (e2 # "ok"),
            events |-> called \o <<Ev("press", "Escape", e2)>>]
      ELSE IF r.ret
      THEN [ret |-> TRUE, raised |-> FALSE, events |-> called \o r.events]
      ELSE IF e1 = "ok"
      THEN [ret |-> TRUE, raised |-> FALSE,
            events |-> called \o r.events \o <<Ev("press", "Escape", e1)>>]
      ELSE [ret |-> FALSE, raised |-> (e2 # "ok"),
            events |-> called \o r.events
                       \o <<Ev("press", "Escape", e1), Ev("press", "Escape", e2)>>]

\* ------------------------------------------------------------ select_dates
\* what text_content() of the cell's live-region label yields: a fault (the
\* label is absent or cannot be read), None, or a text that contains
\* "Selected for departure", contains only "Selected for return", or neither
LabelReads == {"fault", "None", "Selected for departure", "Selected for return", "other"}

\* a return-date step that clicks the cell whatever its label says
ReturnCellClickable_unchecked(label) == TRUE

\* "Selected for departure" in aria_text or "Selected for return" not in aria_text
ReturnCellClickable(label) ==
  label = "Selected for departure" \/ label # "Selected for return"

\* click "Select travel dates"; a failed click returns False at once
dates_open ==
  /\ op = "select_dates" /\ ip = "open"
  /\ \E w \in Outcome, c \in Outcome :
       LET r == safe_click("travel_dates_selector", w, c)
       IN  /\ Emit(r.events)
           /\ IF ~r.ret THEN Return(FALSE) ELSE Goto("settle")
  /\ UNCHANGED <<booking_data, pc, results, shots>>
  /\ UNCHANGED <<given, value, session>>

\* page.wait_for_timeout(1500); departure_day = _extract_day_from_date(...);
\* then the departure loop starts
dates_settle ==
  /\ op = "select_dates" /\ ip = "settle"
  /\ \E t \in Outcome :
       LET d == extract_day_from_date(Get(booking_data, "departure_date", <<>>))
       IN  IF t # "ok" THEN Catch("handler", "wait_for_timeout")
           ELSE IF d.raised THEN Catch("handler", "IndexError")
           ELSE /\ ip' = "departure"
                /\ idx' = 1
                /\ departure_day' = d.ret
                /\ UNCHANGED <<op, exc, caught, departure_selected, return_selected,
                               aria_text, return_day, ret, calls>>
  /\ UNCHANGED <<trace>>
  /\ UNCHANGED <<booking_data, pc, results, shots>>
  /\ UNCHANGED <<given, value, session>>

\* one iteration of `for locator_xpath in departure_locators`; after the last
\* template without a click: raise Exception("Could not find departure date")
dates_departure ==
  /\ op = "select_dates" /\ ip = "departure"
  /\ \E l \in Outcome, w \in Outcome, c \in Outcome :
       LET r == safe_click("departure_day", w, c)
       IN  IF l # "ok"
           THEN Catch("handler", "locator") /\ UNCHANGED trace
           ELSE /\ Emit(r.events)
                /\ IF r.ret
                   THEN /\ departure_selected' = TRUE
                        /\ ip' = "departure_settle"
                        /\ UNCHANGED <<op, exc, caught, idx, return_selected,
                                       aria_text, departure_day, return_day,
                                       ret, calls>>
                   ELSE IF idx < NumDepartureLocators
                   THEN Loop("departure", idx + 1)
                   ELSE Catch("handler", "Could not find departure date")
  /\ UNCHANGED <<booking_data, pc, results, shots>>
  /\ UNCHANGED <<given, value, session>>

\* page.wait_for_timeout(1000); break; `if return_date:` return_day = ...
dates_departure_settle ==
  /\ op = "select_dates" /\ ip = "departure_settle"
  /\ \E t \in Outcome :
       LET return_date == Get(booking_data, "return_date", <<>>)
           d == extract_day_from_date(return_date)
       IN  IF t # "ok" THEN Catch("handler", "wait_for_timeout")
           ELSE IF return_date = <<>> THEN Goto("confirm")
           ELSE IF d.raised THEN Catch("handler", "IndexError")
           ELSE /\ ip' = "return"
                /\ idx' = 1
                /\ return_day' = d.ret
                /\ UNCHANGED <<op, exc, caught, departure_selected, return_selected,
                               aria_text, departure_day, ret, calls>>
  /\ UNCHANGED <<trace>>
  /\ UNCHANGED <<booking_data, pc, results, shots>>
  /\ UNCHANGED <<given, value, session>>

\* one iteration of `for locator_xpath in return_locators`: locate the cell,
\* wait for it, read its live-region label, click it if the condition holds;
\* the loop ends on the first successful click or after the last template
dates_return ==
  /\ op = "select_dates" /\ ip = "return"
  /\ \E l \in Outcome, v \in Outcome, label \in LabelReads,
        w \in Outcome, c \in Outcome :
       LET r == safe_click("return_day", w, c)
           next == /\ ip' = IF idx < NumReturnLocators THEN "return" ELSE "confirm"
                   /\ idx' = IF idx < NumReturnLocators THEN idx + 1 ELSE idx
                   /\ UNCHANGED <<op, exc, caught, departure_selected,
                                  return_selected, departure_day, return_day,
                                  ret, calls>>
       IN  IF l # "ok"
           THEN Catch("handler", "locator") /\ UNCHANGED trace
           ELSE IF ~wait_for_element(v).ret
           THEN next /\ UNCHANGED <<trace, aria_text>>
           ELSE IF label = "fault"
           THEN Catch("handler", "text_content") /\ UNCHANGED trace
           ELSE /\ aria_text' = label
                /\ IF label = "None"
                   THEN /\ ip' = "handler"
                        /\ caught' = "TypeError"
                        /\ UNCHANGED <<op, exc, idx, departure_selected,
                                       return_selected, departure_day, return_day,
                                       ret, calls, trace>>
                   ELSE IF ~ReturnCellClickable(label)
                   THEN next /\ UNCHANGED trace
                   ELSE IF r.ret
                   THEN /\ Emit(r.events)
                        /\ return_selected' = TRUE
                        /\ ip' = "confirm"
                        /\ UNCHANGED <<op, exc, caught, idx, departure_selected,
                                       departure_day, return_day, ret, calls>>
                   ELSE next /\ Emit(r.events)
  /\ UNCHANGED <<booking_data, pc, results, shots>>
  /\ UNCHANGED <<given, value, session>>

\* return self.safe_click(self.date_continue_btn)
dates_confirm ==
  /\ op = "select_dates" /\ ip = "confirm"
  /\ \E w \in Outcome, c \in Outcome :
       LET r == safe_click("date_continue_btn", w, c)
       IN  Emit(r.events) /\ Return(r.ret)
  /\ UNCHANGED <<booking_data, pc, results, shots>>
  /\ UNCHANGED <<given, value, session>>

\* except Exception: self.close_date_picker(); return False
dates_handler ==
  /\ op = "select_dates" /\ ip = "handler"
  /\ \E l \in Outcome, w \in Outcome, c \in Outcome,
        e1 \in Outcome, e2 \in Outcome :
       LET r == close_date_picker(l, w, c, e1, e2)
       IN  /\ Emit(r.events)
           /\ IF r.raised THEN Raise("keyboard.press") ELSE Return(FALSE)
  /\ UNCHANGED <<booking_data, pc, results, shots>>
  /\ UNCHANGED <<given, value, session>>

select_dates ==
  \/ dates_open \/ dates_settle \/ dates_departure \/ dates_departure_settle
  \/ dates_return \/ dates_confirm \/ dates_handler

\* ------------------------------------------------------- select_passengers
\* _get_adult_plus_button and its siblings: the structural locator if it is
\* visible, else the aria-label locator if that is visible, else None
get_button(primary, alt, w1, w2) ==
  IF wait_for_element(w1).ret THEN primary
  ELSE IF wait_for_element(w2).ret THEN alt
  ELSE "None"

\* _get_adult_plus_button resolving the minus control's locators
get_adult_plus_button_swapped(w1, w2) ==
  get_button("adult_minus", "adult_minus_alt", w1, w2)

get_adult_plus_button(w1, w2) == get_button("adult_plus", "adult_plus_alt", w1, w2)
get_adult_minus_button(w1, w2) == get_button("adult_minus", "adult_minus_alt", w1, w2)
get_infant_plus_button(w1, w2) == get_button("infant_plus", "infant_plus_alt", w1, w2)


\* click "Select Passengers"; a failed click returns False at once
passengers_open ==
  /\ op = "select_passengers" /\ ip = "open"
  /\ \E w \in Outcome, c \in Outcome :
       LET r == safe_click("passenger_selector", w, c)
       IN  /\ Emit(r.events)
           /\ IF ~r.ret THEN Return(FALSE) ELSE Goto("settle")
  /\ UNCHANGED <<booking_data, pc, results, shots>>
  /\ UNCHANGED <<given, value, session>>

\* page.wait_for_timeout(1500); current_adults = 1; difference
passengers_settle ==
  /\ op = "select_passengers" /\ ip = "settle"
  /\ \E t \in Outcome :
       LET adults == Get(booking_data, "adults", 1)
           infants == Get(booking_data, "infants", 0)
           current_adults == 1
       IN  IF t # "ok" THEN Fail("wait_for_timeout")
           ELSE Loop(IF adults # current_adults THEN "adults"
                     ELSE IF infants > 0 THEN "infants" ELSE "finish", 0)
  /\ UNCHANGED <<trace>>
  /\ UNCHANGED <<booking_data, pc, results, shots>>
  /\ UNCHANGED <<given, value, session>>

\* one iteration of the adult loop: resolve the plus (difference > 0) or the
\* minus button, click it, settle; an unresolved button or a failed click
\* prints the diagnostic and breaks out of the loop; a fault of the settle
\* wait is caught by the except block
passengers_adults ==
  /\ op = "select_passengers" /\ ip = "adults"
  /\ \E w1 \in Outcome, w2 \in Outcome, w \in Outcome, c \in Outcome,
        t \in Outcome :
       LET adults == Get(booking_data, "adults", 1)
           infants == Get(booking_data, "infants", 0)
           difference == adults - 1
           adult_button == IF difference > 0 THEN get_adult_plus_button(w1, w2)
                           ELSE get_adult_minus_button(w1, w2)
           r == safe_click(adult_button, w, c)
           after == IF infants > 0 THEN "infants" ELSE "finish"
           leave == Loop(after, 0)
           stopped == Log(IF difference > 0 THEN "Could not add adult passenger"
                          ELSE "Could not remove adult passenger")
       IN  IF adult_button = "None"
           THEN leave /\ Emit(<<stopped>>)
           ELSE IF ~r.ret
           THEN leave /\ Emit(r.events \o <<stopped>>)
           ELSE /\ Emit(r.events)
                /\ IF t # "ok" THEN Fail("wait_for_timeout")
                   ELSE IF idx + 1 < (IF difference < 0 THEN -difference ELSE difference)
                   THEN Loop("adults", idx + 1)
                   ELSE leave
  /\ UNCHANGED <<booking_data, pc, results, shots>>
  /\ UNCHANGED <<given, value, session>>

\* one iteration of `for i in range(infants)`
passengers_infants ==
  /\ op = "select_passengers" /\ ip = "infants"
  /\ \E w1 \in Outcome, w2 \in Outcome, w \in Outcome, c \in Outcome,
        t \in Outcome :
       LET infants == Get(booking_data, "infants", 0)
           infant_button == get_infant_plus_button(w1, w2)
           r == safe_click(infant_button, w, c)
           stopped == Log("Could not add infant")
       IN  IF infant_button = "None"
           THEN Goto("finish") /\ Emit(<<stopped>>)
           ELSE IF ~r.ret
           THEN Goto("finish") /\ Emit(r.events \o <<stopped>>)
           ELSE /\ Emit(r.events)
                /\ IF t # "ok" THEN Fail("wait_for_timeout")
                   ELSE IF idx + 1 < infants
                   THEN Loop("infants", idx + 1)
                   ELSE Goto("finish")
  /\ UNCHANGED <<booking_data, pc, results, shots>>
  /\ UNCHANGED <<given, value, session>>

\* a select_passengers that reports a loop that stopped early as a failure
passengers_finish_strict ==
  /\ op = "select_passengers" /\ ip = "finish"
  /\ Return(~\E i \in 1..Len(trace) : trace[i].act = "log")
  /\ UNCHANGED <<trace>>
  /\ UNCHANGED <<booking_data, pc, results, shots>>
  /\ UNCHANGED <<given, value, session>>

\* return True
passengers_finish ==
  /\ op = "select_passengers" /\ ip = "finish"
  /\ Return(TRUE)
  /\ UNCHANGED <<trace>>
  /\ UNCHANGED <<booking_data, pc, results, shots>>
  /\ UNCHANGED <<given, value, session>>

select_passengers ==
  \/ passengers_open \/ passengers_settle \/ passengers_adults
  \/ passengers_infants \/ passengers_finish

\* ---------------------------------------------- confirm_passenger_selection
\* l: page.locator of the dialog confirmation; v: the medium-timeout wait;
\* w, c: safe_click on it
confirm_passenger_selection(l, v, w, c) ==
  LET r == safe_click("passenger_confirm_btn", w, c)
  IN  IF l # "ok" THEN [ret |-> FALSE, raised |-> FALSE, events |-> <<>>]
      ELSE IF ~wait_for_element(v).ret
      THEN [ret |-> FALSE, raised |-> FALSE, events |-> <<>>]
      ELSE [ret |-> r.ret, raised |-> FALSE, events |-> r.events]

\* ------------------------------------------ perform_complete_booking_flow
\* a step name inserted at the front of steps_completed
AddStep_prepend(res, name) ==
  [res EXCEPT !.steps_completed = <<name>> \o @]

\* results['steps_completed'].append(name)
AddStep(res, name) ==
  [res EXCEPT !.steps_completed = Append(@, name)]

\* an error appended without results['success'] = False
AddError_keeps_success(res, msg) ==
  [res EXCEPT !.errors = Append(@, msg)]

\* results['errors'].append(msg); results['success'] = False
AddError(res, msg) ==
  [res EXCEPT !.errors = Append(@, msg), !.success = FALSE]

\* `if screenshot_path: results['screenshots'].append(screenshot_path)`
AddScreenshot(res, path) ==
  IF path # NoPath THEN [res EXCEPT !.screenshots = Append(@, path)] ELSE res

\* the primitive's frame is dropped once the flow has used its result
Idle ==
  /\ op' = "none"
  /\ ip' = "idle"
  /\ ret' = "none"
  /\ idx' = 0
  /\ departure_selected' = FALSE
  /\ return_selected' = FALSE
  /\ aria_text' = "unset"
  /\ departure_day' = Unset
  /\ return_day' = Unset
  /\ caught' = "none"
  /\ trace' = <<>>
  /\ UNCHANGED calls

\* a flow that stops at the first failed step instead of going on
StepResult_failfast(p, name, msg, next) ==
  /\ pc = p /\ ip = "returned"
  /\ IF ret = "raised"
     THEN pc' = "except" /\ UNCHANGED <<results, exc>>
     ELSE /\ results' = IF ret = "true" THEN AddStep(results, name)
                        ELSE AddError(results, msg)
          /\ pc' = IF ret = "true" THEN next ELSE "screenshot"
          /\ exc' = "none"
  /\ Idle
  /\ UNCHANGED <<booking_data, shots>>
  /\ UNCHANGED <<given, value, session>>

\* the primitive called at position p has returned: append the step name or
\* the error and go on with `next`; a fault that left the primitive goes to
\* the flow's except block
StepResult(p, name, msg, next) ==
  /\ pc = p /\ ip = "returned"
  /\ IF ret = "raised"
     THEN pc' = "except" /\ UNCHANGED <<results, exc>>
     ELSE /\ results' = IF ret = "true" THEN AddStep(results, name)
                        ELSE AddError(results, msg)
          /\ pc' = next
          /\ exc' = "none"
  /\ Idle
  /\ UNCHANGED <<booking_data, shots>>
  /\ UNCHANGED <<given, value, session>>

\* Step 1: select trip type
flow_step1 ==
  /\ pc = "step1" /\ op = "none"
  /\ LET trip_type == Get(booking_data, "trip_type", "one_way")
     IN  IF Lower(trip_type) = "one_way"
         THEN Call("select_one_way", "probe")
         ELSE Call("select_round_trip", "probe")
  /\ UNCHANGED <<booking_data, pc, results, shots>>
  /\ UNCHANGED <<given, value, session>>

flow_step1_result ==
  StepResult("step1", "trip_type_selected",
             IF op = "select_one_way" THEN <<"Failed to select one way trip">>
             ELSE <<"Failed to select round trip">>,
             "step2")

\* Step 2: `if origin and self.select_origin(origin)`
flow_step2 ==
  /\ pc = "step2" /\ op = "none"
  /\ LET origin == Get(booking_data, "origin", "")
     IN  IF origin # ""
         THEN Call("select_origin", "open") /\ UNCHANGED <<pc, results>>
         ELSE /\ results' = AddError(results, <<"Failed to select origin: ", origin>>)
              /\ pc' = "step3"
              /\ UNCHANGED <<exc, caught, op, ip, locals, ret, trace, calls>>
  /\ UNCHANGED <<booking_data, shots>>
  /\ UNCHANGED <<given, value, session>>

flow_step2_result ==
  StepResult("step2", "origin_selected",
             <<"Failed to select origin: ", Get(booking_data, "origin", "")>>,
             "step3")

\* Step 3: `if destination and self.select_destination(destination)`
flow_step3 ==
  /\ pc = "step3" /\ op = "none"
  /\ LET destination == Get(booking_data, "destination", "")
     IN  IF destination # ""
         THEN Call("select_destination", "open") /\ UNCHANGED <<pc, results>>
         ELSE /\ results' = AddError(results,
                                     <<"Failed to select destination: ", destination>>)
              /\ pc' = "step4"
              /\ UNCHANGED <<exc, caught, op, ip, locals, ret, trace, calls>>
  /\ UNCHANGED <<booking_data, shots>>
  /\ UNCHANGED <<given, value, session>>

flow_step3_result ==
  StepResult("step3", "destination_selected",
             <<"Failed to select destination: ", Get(booking_data, "destination", "")>>,
             "step4")

\* Step 4: `if departure_date:` select_dates(departure_date, return_date)
flow_step4 ==
  /\ pc = "step4" /\ op = "none"
  /\ LET departure_date == Get(booking_data, "departure_date", <<>>)
     IN  IF departure_date # <<>>
         THEN Call("select_dates", "open") /\ UNCHANGED <<pc, results>>
         ELSE /\ pc' = "step5"
              /\ UNCHANGED <<results, exc, caught, op, ip, locals, ret, trace, calls>>
  /\ UNCHANGED <<booking_data, shots>>
  /\ UNCHANGED <<given, value, session>>

flow_step4_result ==
  StepResult("step4", "dates_selected", <<"Failed to select dates">>, "step5")

\* Step 5: select_passengers(adults, infants)
flow_step5 ==
  /\ pc = "step5" /\ op = "none"
  /\ Call("select_passengers", "open")
  /\ UNCHANGED <<booking_data, pc, results, shots>>
  /\ UNCHANGED <<given, value, session>>

\* a flow that confirms the passengers whatever select_passengers returned
flow_step5_result_always_confirm ==
  StepResult("step5", "passengers_selected", <<"Failed to select passengers">>,
             "confirm")

flow_step5_result ==
  StepResult("step5", "passengers_selected", <<"Failed to select passengers">>,
             IF ret = "true" THEN "confirm" ELSE "screenshot")

\* `if self.confirm_passenger_selection()` inside the success branch
flow_confirm ==
  /\ pc = "confirm" /\ op = "none"
  /\ \E l \in Outcome, v \in Outcome, w \in Outcome, c \in Outcome :
       LET r == confirm_passenger_selection(l, v, w, c)
       IN  /\ calls' = Append(calls, [name |-> "confirm_passenger_selection",
                                      ret |-> IF r.raised THEN "raised"
                                              ELSE IF r.ret THEN "true" ELSE "false"])
           /\ trace' = r.events
           /\ IF r.raised
              THEN /\ pc' = "except"
                   /\ exc' = "confirm_passenger_selection"
                   /\ UNCHANGED results
              ELSE /\ results' = IF r.ret THEN AddStep(results, "passengers_confirmed")
                                 ELSE AddError(results, <<"Failed to confirm passengers">>)
                   /\ pc' = "screenshot"
                   /\ UNCHANGED exc
  /\ UNCHANGED <<booking_data, shots, caught, op, ip, locals, ret>>
  /\ UNCHANGED <<given, value, session>>

\* take_screenshot('booking_flow_complete') at the end of the try block
flow_screenshot ==
  /\ pc = "screenshot" /\ op = "none"
  /\ \E mk \in Outcome, sh \in Outcome :
       LET r == take_screenshot(<<"booking_flow_complete">>, mk, sh)
       IN  /\ shots' = shots \o r.shots
           /\ IF r.raised
              THEN /\ pc' = "except"
                   /\ exc' = "take_screenshot"
                   /\ UNCHANGED results
              ELSE /\ results' = AddScreenshot(results, r.ret)
                   /\ pc' = "done"
                   /\ UNCHANGED exc
  /\ UNCHANGED <<booking_data, caught, op, ip, locals, ret, trace, calls>>
  /\ UNCHANGED <<given, value, session>>

\* except Exception as e: record the fault, capture_on_failure('booking_flow')
flow_except ==
  /\ pc = "except" /\ op = "none"
  /\ \E mk \in Outcome, sh \in Outcome :
       LET r == capture_on_failure(<<"booking_flow">>, mk, sh)
           failed == AddError(results, <<"Unexpected error in booking flow: ", exc>>)
       IN  /\ shots' = shots \o r.shots
           /\ IF r.raised
              THEN /\ pc' = "raised"
                   /\ results' = failed
              ELSE /\ results' = AddScreenshot(failed, r.ret)
                   /\ pc' = "done"
  /\ UNCHANGED <<booking_data, exc, caught, op, ip, locals, ret, trace, calls>>
  /\ UNCHANGED <<given, value, session>>

perform_complete_booking_flow ==
  \/ flow_step1 \/ flow_step1_result
  \/ flow_step2 \/ flow_step2_result
  \/ flow_step3 \/ flow_step3_result
  \/ flow_step4 \/ flow_step4_result
  \/ flow_step5 \/ flow_step5_result
  \/ flow_confirm \/ flow_screenshot \/ flow_except

Next ==
  \/ perform_complete_booking_flow
  \/ select_trip_type
  \/ select_location
  \/ select_dates
  \/ select_passengers

Spec == Init /\ [][Next]_vars

\* --------------------------------------- get_validation_messages and others
\* A text is the sequence of its characters.  text_content() of an element
\* yields a text, or None, or raises.
NoneValue == <<"None">>
ReadFault == <<"fault">>
Texts == {<<" ">>, <<"a">>, <<"a", " ">>, <<"b">>}
Reads == Texts \cup {NoneValue, ReadFault}

\* an element of the page: whether wait_for finds it visible, and what
\* text_content() yields if it does
Hidden == [visible |-> "fault", read |-> ReadFault]
Elements == {Hidden} \cup [visible : {"ok"}, read : Reads]

\* most elements the generic validation locator matches
MaxValidationElements == 2

\* what a page shows: the elements validation_message.all() yields, in
\* document order (or that the call raises), the adult and the infant
\* validation regions, and the generic error region
Pages ==
  [all : Outcome,
   validation_message :
     UNION {[1..n -> Elements] : n \in 0..MaxValidationElements},
   adult_validation_message : Elements, infant_validation_message : Elements,
   error_message : Elements]

\* str.strip()
Strip(s) ==
  LET inked == {i \in 1..Len(s) : s[i] # " "}
  IN  IF inked = {} THEN <<>> ELSE SubSeq(s, Min(inked), Max(inked))

\* `text in messages`
In(text, messages) == \E i \in 1..Len(messages) : messages[i] = text

\* the loop over validation_elements from element i on; a text_content()
\* that raises or yields None (no .strip()) ends the loop through the inner
\* except, with the messages appended so far
RECURSIVE scrape_elements(_, _, _)
scrape_elements(elements, i, messages) ==
  IF i > Len(elements) THEN messages
  ELSE IF ~wait_for_element(elements[i].visible).ret
  THEN scrape_elements(elements, i + 1, messages)
  ELSE IF elements[i].read \in {NoneValue, ReadFault} THEN messages
  ELSE LET text == Strip(elements[i].read)
       IN  scrape_elements(elements, i + 1,
                           IF text # <<>> THEN Append(messages, text) ELSE messages)

\* the adult / infant region: `if text and text not in messages: append`
scrape_region(element, messages) ==
  IF ~wait_for_element(element.visible).ret THEN messages
  ELSE IF element.read \in {NoneValue, ReadFault} THEN messages
  ELSE LET text == Strip(element.read)
       IN  IF text # <<>> /\ ~In(text, messages) THEN Append(messages, text)
           ELSE messages

get_validation_messages(page) ==
  LET generic == IF page.all # "ok" THEN <<>>
                 ELSE scrape_elements(page.validation_message, 1, <<>>)
      adult == scrape_region(page.adult_validation_message, generic)
      infant == scrape_region(page.infant_validation_message, adult)
  IN  [ret |-> infant, raised |-> FALSE]

\* -------------------------------------------------------- get_error_message
\* sep.join(messages)
RECURSIVE join(_, _)
join(sep, messages) ==
  IF messages = <<>> THEN <<>>
  ELSE IF Len(messages) = 1 THEN messages[1]
  ELSE messages[1] \o sep \o join(sep, Tail(messages))

\* a get_error_message that looks at the generic error region first
get_error_message_generic_first(page) ==
  LET validation_messages == get_validation_messages(page).ret
      visible == wait_for_element(page.error_message.visible).ret
      waited == <<Ev("wait_for", "error_message", page.error_message.visible)>>
  IN  IF visible /\ page.error_message.read # ReadFault
      THEN [ret |-> page.error_message.read, raised |-> FALSE, events |-> waited]
      ELSE IF validation_messages # <<>>
      THEN [ret |-> join(<<";", " ">>, validation_messages), raised |-> FALSE,
            events |-> waited]
      ELSE [ret |-> NoneValue, raised |-> FALSE, events |-> waited]

\* get_error_message: the validation messages joined with "; " if there are
\* any; else the text_content() of the generic error region if it is visible
\* (None if the read raises); else None
get_error_message(page) ==
  LET validation_messages == get_validation_messages(page).ret
      visible == wait_for_element(page.error_message.visible).ret
      waited == <<Ev("wait_for", "error_message", page.error_message.visible)>>
  IN  IF validation_messages # <<>>
      THEN [ret |-> join(<<";", " ">>, validation_messages), raised |-> FALSE,
            events |-> <<>>]
      ELSE IF visible /\ page.error_message.read # ReadFault
      THEN [ret |-> page.error_message.read, raised |-> FALSE, events |-> waited]
      ELSE [ret |-> NoneValue, raised |-> FALSE, events |-> waited]

\* ------------------------------------------------ the supported date formats
\* the days of a month, and the decimal digits
Days == 1..31
Digit(n) == <<"0", "1", "2", "3", "4", "5", "6", "7", "8", "9">>[n + 1]

\* str(d)
DayString(d) ==
  IF d < 10 THEN <<Digit(d)>> ELSE <<Digit(d \div 10), Digit(d % 10)>>

\* the three spellings of day d of September 2025: "15 Sept 2025",
\* "2025-09-15", "15"
Spellings == {"D Mon YYYY", "YYYY-MM-DD", "D"}
DateString(d, spelling) ==
  CASE spelling = "D Mon YYYY" ->
         DayString(d) \o <<" ", "S", "e", "p", "t", " ", "2", "0", "2", "5">>
    [] spelling = "YYYY-MM-DD" ->
         <<"2", "0", "2", "5", "-", "0", "9", "-">> \o <<Digit(d \div 10), Digit(d % 10)>>
    [] OTHER -> DayString(d)

\* ------------------------------------------- get_infant_limit_error_message
UpperLetters ==
  <<"A", "B", "C", "D", "E", "F", "G", "H", "I", "J", "K", "L", "M", "N", "O", "P", "Q", "R", "S", "T", "U", "V", "W", "X", "Y", "Z">>
LowerLetters ==
  <<"a", "b", "c", "d", "e", "f", "g", "h", "i", "j", "k", "l", "m", "n", "o", "p", "q", "r", "s", "t", "u", "v", "w", "x", "y", "z">>

\* str.lower(), character by character
LowerChar(c) ==
  IF \E i \in 1..26 : UpperLetters[i] = c
  THEN LowerLetters[CHOOSE i \in 1..26 : UpperLetters[i] = c]
  ELSE c
LowerText(s) == [i \in 1..Len(s) |-> LowerChar(s[i])]

\* `keyword in message`
ContainsText(message, keyword) ==
  \E i \in 1..(Len(message) - Len(keyword) + 1) :
    SubSeq(message, i, i + Len(keyword) - 1) = keyword

\* infant_keywords = ["infant", "adult", "booked", "online", "every"]
infant_keywords ==
  <<<<"i", "n", "f", "a", "n", "t">>,
    <<"a", "d", "u", "l", "t">>,
    <<"b", "o", "o", "k", "e", "d">>,
    <<"o", "n", "l", "i", "n", "e">>,
    <<"e", "v", "e", "r", "y">>>>

\* the validation texts a passenger dialog is given here: a keyword in
\* mixed case inside a longer text, a keyword in upper case, a keyword cut
\* short, and a text without any keyword
MessageTexts ==
  {<<"1", " ", "I", "n", "f", "a", "n", "t", " ", "m", "a", "x">>,
   <<"O", "N", "L", "I", "N", "E">>,
   <<"i", "n", "f", "a", "n">>,
   <<"o", "k">>}
MessagePages ==
  LET elements == {Hidden} \cup [visible : {"ok"}, read : MessageTexts]
  IN  [all : Outcome,
       validation_message :
         UNION {[1..n -> elements] : n \in 0..MaxValidationElements},
       adult_validation_message : elements,
       infant_validation_message : elements,
       error_message : {Hidden}]

\* the keyword search without message.lower()
get_infant_limit_error_message_case_sensitive(page) ==
  LET validation_messages == get_validation_messages(page).ret
      matching == {i \in 1..Len(validation_messages) :
                     \E k \in 1..Len(infant_keywords) :
                       ContainsText(validation_messages[i], infant_keywords[k])}
  IN  [ret |-> IF matching = {} THEN NoneValue
               ELSE validation_messages[Min(matching)],
       raised |-> FALSE]

\* the first validation message whose lower-cased text contains a keyword,
\* or None
get_infant_limit_error_message(page) ==
  LET validation_messages == get_validation_messages(page).ret
      matching == {i \in 1..Len(validation_messages) :
                     \E k \in 1..Len(infant_keywords) :
                       ContainsText(LowerText(validation_messages[i]),
                                    infant_keywords[k])}
  IN  [ret |-> IF matching = {} THEN NoneValue
               ELSE validation_messages[Min(matching)],
       raised |-> FALSE]

\* ------------------------------------------------------------ run_tests.py
\* sys.argv has no first argument
NoArgument == <<>>

\* the test file named in the script's usage text
AdvertisedTestFile ==
  <<"t", "e", "s", "t", "c", "a", "s", "e", "1", "_", "s", "u", "c", "c", "e", "s", "s", "f", "u", "l", "_", "o", "n", "e", "w", "a", "y", "_", "f", "l", "i", "g", "h", "t", ".", "p", "y">>

\* directories = ["screenshots", "reports"]
directories == <<"screenshots", "reports">>

\* create_directories(): os.makedirs for each directory that does not exist
create_directories(existing) ==
  LET made(i) == IF directories[i] \in existing THEN <<>>
                 ELSE <<Ev("makedirs", directories[i], "ok")>>
  IN  made(1) \o made(2)

\* option.startswith(prefix)
StartsWith(option, prefix) ==
  /\ Len(option) >= Len(prefix)
  /\ SubSeq(option, 1, Len(prefix)) = prefix

\* the dispatch of the __main__ block on sys.argv[1].lower()
run_tests_dispatch(argv) ==
  LET option == LowerText(argv)
  IN  IF argv = NoArgument THEN [run |-> "all", test_file |-> NoArgument]
      ELSE IF option = <<"s", "m", "o", "k", "e">>
        THEN [run |-> "smoke", test_file |-> NoArgument]
      ELSE IF option = <<"r", "e", "g", "r", "e", "s", "s", "i", "o", "n">>
        THEN [run |-> "regression", test_file |-> NoArgument]
      ELSE IF StartsWith(option, <<"t", "e", "s", "t", "_">>)
        THEN [run |-> "specific", test_file |-> argv]
      ELSE [run |-> "usage", test_file |-> NoArgument]

\* the __main__ block: create_directories(), then the dispatched run
run_tests(argv, existing) ==
  [ret |-> run_tests_dispatch(argv),
   raised |-> FALSE,
   events |-> create_directories(existing)
              \o <<Ev("run", run_tests_dispatch(argv).run, "ok")>>]

\* ------------------------------------------------------ validate_form_state
\* required_elements, in the order the dictionary is walked
required_elements ==
  <<"departure_selector", "arrival_selector", "travel_dates",
    "passenger_selector", "search_button">>
Fields == {required_elements[i] : i \in 1..Len(required_elements)}


\* the driver call that faults during one inspection, if any: the wait or
\* the is_enabled() of a control in the loop, or those of the closing look
\* at the search button
NoFault == [call |-> "none", field |-> ""]
FormFaults ==
  {NoFault}
    \cup [call : {"wait", "is_enabled"}, field : Fields]
    \cup [call : {"wait2", "is_enabled2"}, field : {"search_button"}]

FormError(kind, field, text) == [kind |-> kind, field |-> field, text |-> text]

\* a field state that reports every control as enabled
FieldState_always_enabled(is_present, control) ==
  [present |-> is_present, enabled |-> TRUE]

\* {'present': is_present, 'enabled': element.is_enabled() if is_present else False}
FieldState(is_present, control) ==
  [present |-> is_present,
   enabled |-> IF is_present THEN control = "enabled" ELSE FALSE]

\* validate_form_state(): the dictionary returned for a form whose controls
\* are in the given states, under the given driver fault
validate_form_state(controls, fault, page) ==
  LET n == Len(required_elements)
      is_present(i) ==
        /\ controls[required_elements[i]] # "absent"
        /\ fault # [call |-> "wait", field |-> required_elements[i]]
      raises(i) ==
        /\ is_present(i)
        /\ fault = [call |-> "is_enabled", field |-> required_elements[i]]
      \* the loop stops at the first is_enabled() that raises
      stop == IF \E i \in 1..n : raises(i)
              THEN Min({i \in 1..n : raises(i)}) ELSE n + 1
      done == 1..(stop - 1)
      field_states ==
        [field \in {required_elements[i] : i \in done} |->
           LET i == CHOOSE k \in done : required_elements[k] = field
           IN  FieldState(is_present(i), controls[field])]
      missing == SelectSeq([i \in 1..(stop - 1) |-> i],
                           LAMBDA i : ~is_present(i))
      not_found ==
        [k \in 1..Len(missing) |->
           FormError("not found", required_elements[missing[k]], <<>>)]
      validation_messages == get_validation_messages(page).ret
      messages ==
        [k \in 1..Len(validation_messages) |->
           FormError("message", "", validation_messages[k])]
      visible2 == /\ controls["search_button"] # "absent"
                  /\ fault.call # "wait2"
      raises2 == visible2 /\ fault.call = "is_enabled2"
      raised == stop <= n \/ raises2
      during == FormError("Error during validation", "", <<>>)
  IN  [ret |->
         [is_valid |-> ~raised /\ missing = <<>> /\ validation_messages = <<>>,
          errors |-> IF stop <= n THEN not_found \o <<during>>
                     ELSE IF raises2 THEN not_found \o messages \o <<during>>
                     ELSE not_found \o messages,
          warnings |-> IF stop > n /\ visible2 /\ ~raises2
                          /\ controls["search_button"] = "disabled"
                       THEN <<"Search flights button is disabled">>
                       ELSE <<>>,
          field_states |-> field_states],
       raised |-> FALSE]

\* ------------------------------------------- test_infant_limit_validation
\* The passenger stepper of the page under test, as the tests describe it:
\* one infant per adult; an increment past that is blocked and a validation
\* message is shown.
Stepper(adults) == [adults |-> adults, infants |-> 0, blocked |-> FALSE]

\* a click on the infant plus control that reached the page
StepperIncrement(stepper) ==
  IF stepper.infants < stepper.adults
  THEN [stepper EXCEPT !.infants = @ + 1]
  ELSE [stepper EXCEPT !.blocked = TRUE]

\* the pages the stepper can show after a blocked increment: one message
\* that bears a keyword, in the generic list, the adult region or the infant
\* region
BlockedPages ==
  {page \in MessagePages :
     /\ page.all = "ok"
     /\ \E text \in {<<"1", " ", "I", "n", "f", "a", "n", "t", " ", "m", "a", "x">>, <<"O", "N", "L", "I", "N", "E">>} :
          LET shown == [visible |-> "ok", read |-> text]
          IN  \/ /\ page.validation_message = <<shown>>
                 /\ page.adult_validation_message = Hidden
                 /\ page.infant_validation_message = Hidden
              \/ /\ page.validation_message = <<>>
                 /\ page.adult_validation_message = shown
                 /\ page.infant_validation_message = Hidden
              \/ /\ page.validation_message = <<>>
                 /\ page.adult_validation_message = Hidden
                 /\ page.infant_validation_message = shown}


\* what the scraper finds on the page of the stepper: the message once an
\* increment was blocked, no message before
StepperPage(stepper, shown) ==
  IF stepper.blocked THEN shown
  ELSE [all |-> "ok", validation_message |-> <<>>,
        adult_validation_message |-> Hidden,
        infant_validation_message |-> Hidden, error_message |-> Hidden]

\* click_infant_plus: resolve the infant plus control (w1, w2) and safe_click
\* it (w, c); False if it cannot be resolved
click_infant_plus(w1, w2, w, c) ==
  LET infant_button == get_infant_plus_button(w1, w2)
      r == safe_click(infant_button, w, c)
      called == <<Ev("call", "click_infant_plus", "ok")>>
  IN  IF infant_button = "None"
      THEN [ret |-> FALSE, raised |-> FALSE, events |-> called]
      ELSE [ret |-> r.ret, raised |-> FALSE, events |-> called \o r.events]

\* the driver call that faults during one probe, if any: the wait or the
\* click on the passenger selector, one of the two settle waits, or, in
\* attempt `at`, the wait on the structural locator of the plus control, the
\* waits on both of its locators, the wait inside safe_click or the click
ProbeFaults(adults) ==
  {[call |-> "none", at |-> 0]}
    \cup [call : {"open_wait", "open_click", "timeout1", "timeout2"}, at : {0}]
    \cup [call : {"locator", "locators", "click_wait", "click"},
          at : 1..(adults + 1)]

\* the outcome of driver call `call` of attempt `at` under the fault
Under(fault, calls_hit, at) ==
  IF fault.call \in calls_hit /\ fault.at = at THEN "fault" ELSE "ok"

\* a probe that stops at the cap: range(adults) without the attempt after it
infant_attempt_count_at_cap(adults) == adults

\* `for _ in range(adults): click_infant_plus()` and one click_infant_plus()
\* more
infant_attempt_count(adults) == adults + 1

\* attempts k..n of the probe on the stepper: the stepper they leave and the
\* driver actions they issue
RECURSIVE infant_attempts(_, _, _, _)
infant_attempts(k, n, stepper, fault) ==
  IF k > n THEN [stepper |-> stepper, events |-> <<>>]
  ELSE LET r == click_infant_plus(Under(fault, {"locator", "locators"}, k),
                                   Under(fault, {"locators"}, k),
                                   Under(fault, {"click_wait"}, k),
                                   Under(fault, {"click"}, k))
           rest == infant_attempts(k + 1, n,
                                   IF r.ret THEN StepperIncrement(stepper)
                                   ELSE stepper,
                                   fault)
       IN  [stepper |-> rest.stepper, events |-> r.events \o rest.events]

\* test_infant_limit_validation(adults) on a stepper: open the dialog, make
\* the attempts, harvest the messages; list(set(...)) keeps each message
\* once, in no particular order
test_infant_limit_validation(adults, stepper, fault, shown) ==
  LET opened == safe_click("passenger_selector",
                           Under(fault, {"open_wait"}, 0),
                           Under(fault, {"open_click"}, 0))
      attempts == infant_attempts(1, infant_attempt_count(adults), stepper,
                                  fault)
      messages == get_validation_messages(
                    StepperPage(attempts.stepper, shown)).ret
      harvest == <<Ev("call", "get_validation_messages", "ok")>>
  IN  IF ~opened.ret
      THEN [ret |-> {}, raised |-> FALSE, events |-> opened.events]
      ELSE IF fault.call = "timeout1"
      THEN [ret |-> {}, raised |-> FALSE, events |-> opened.events]
      ELSE IF fault.call = "timeout2"
      THEN [ret |-> {}, raised |-> FALSE,
            events |-> opened.events \o attempts.events]
      ELSE [ret |-> {messages[i] : i \in 1..Len(messages)},
            raised |-> FALSE,
            events |-> opened.events \o attempts.events \o harvest]

\* ------------------------------------------------------ search submission
\* wait_for_loading_complete: v is the short visibility wait on the loading
\* indicator, h the wait for it to become hidden (a timeout is a raised
\* fault); both the normal exit and the except block return True
wait_for_loading_complete(v, h) ==
  [ret |-> TRUE, raised |-> FALSE,
   events |-> IF wait_for_element(v).ret
              THEN <<Ev("wait_for", "loading_indicator", v),
                     Ev("wait_for_hidden", "loading_indicator", h)>>
              ELSE <<Ev("wait_for", "loading_indicator", v)>>]

\* confirm_search_flights: wait for loading, then return whether the button
\* is visible (b); no click
confirm_search_flights(v, h, b) ==
  [ret |-> wait_for_element(b).ret, raised |-> FALSE,
   events |-> wait_for_loading_complete(v, h).events]

\* ------------------------------------------- operations called on their own
\* Besides the booking flow, the tests call the page object's operations one
\* at a time.  In the specification below an operation is called directly:
\* `given` holds what the driver and the page give during the call, `value`
\* what the call returned (or that it raised), `trace` the driver actions it
\* issued, `op` its name.
DirectInit ==
  /\ booking_data = [adults |-> 1, infants |-> 0]
  /\ pc = "direct"
  /\ results = [success |-> TRUE, steps_completed |-> <<>>,
                errors |-> <<>>, screenshots |-> <<>>]
  /\ exc = "none"
  /\ op = "none"
  /\ ip = "idle"
  /\ idx = 0
  /\ departure_selected = FALSE
  /\ return_selected = FALSE
  /\ aria_text = "unset"
  /\ departure_day = Unset
  /\ return_day = Unset
  /\ caught = "none"
  /\ ret = "none"
  /\ trace = <<>>
  /\ calls = <<>>
  /\ shots = <<>>
  /\ given = "none"
  /\ value = "none"
  /\ session = NoSession

\* the variables a direct call leaves alone
flow_vars == <<booking_data, pc, results, exc, caught, ip, locals, ret, calls,
               shots, session>>

\* no call is under way
Ready == pc = "direct" /\ op = "none"

\* the call of operation `name` under `g` returned (or raised) r
Direct(name, g, r, events) ==
  /\ op' = name
  /\ given' = g
  /\ value' = [raised |-> r.raised, ret |-> r.ret]
  /\ trace' = events
  /\ UNCHANGED flow_vars

call_wait_for_element ==
  /\ Ready
  /\ \E w \in Outcome :
       Direct("wait_for_element", [w |-> w], wait_for_element(w), <<>>)

call_safe_click ==
  /\ Ready
  /\ \E w \in Outcome, c \in Outcome :
       LET r == safe_click("locator", w, c)
       IN  Direct("safe_click", [w |-> w, c |-> c], r, r.events)

call_safe_fill ==
  /\ Ready
  /\ \E w \in Outcome, cl \in Outcome, f \in Outcome :
       LET r == safe_fill("locator", "text", w, cl, f)
       IN  Direct("safe_fill", [w |-> w, cl |-> cl, f |-> f], r, r.events)

call_close_date_picker ==
  /\ Ready
  /\ \E l \in Outcome, w \in Outcome, c \in Outcome, e1 \in Outcome, e2 \in Outcome :
       LET r == close_date_picker(l, w, c, e1, e2)
       IN  Direct("close_date_picker",
                  [l |-> l, w |-> w, c |-> c, e1 |-> e1, e2 |-> e2], r, r.events)

call_get_validation_messages ==
  /\ Ready
  /\ \E page \in Pages :
       Direct("get_validation_messages", page, get_validation_messages(page), <<>>)

\* the caller has used the result; the next call starts afresh
direct_return ==
  /\ pc = "direct" /\ op # "none"
  /\ op' = "none"
  /\ given' = "none"
  /\ value' = "none"
  /\ trace' = <<>>
  /\ UNCHANGED flow_vars

call_get_error_message ==
  /\ Ready
  /\ \E page \in Pages :
       LET r == get_error_message(page)
       IN  Direct("get_error_message", page, r, r.events)

call_extract_day_from_date ==
  /\ Ready
  /\ \E d \in Days, spelling \in Spellings :
       Direct("_extract_day_from_date",
              [day |-> d, spelling |-> spelling,
               date_str |-> DateString(d, spelling)],
              extract_day_from_date(DateString(d, spelling)), <<>>)

call_wait_for_loading_complete ==
  /\ Ready
  /\ \E v \in Outcome, h \in Outcome :
       LET r == wait_for_loading_complete(v, h)
       IN  Direct("wait_for_loading_complete", [v |-> v, h |-> h], r, r.events)

call_get_infant_limit_error_message ==
  /\ Ready
  /\ \E page \in MessagePages :
       Direct("get_infant_limit_error_message", page,
              get_infant_limit_error_message(page), <<>>)

\* the script is started with no argument, smoke, Smoke, regression,
\* test_a.py, help or the advertised test file
call_run_tests ==
  /\ Ready
  /\ \E argv \in {NoArgument,
                   <<"s", "m", "o", "k", "e">>,
                   <<"S", "m", "o", "k", "e">>,
                   <<"r", "e", "g", "r", "e", "s", "s", "i", "o", "n">>,
                   <<"t", "e", "s", "t", "_", "a", ".", "p", "y">>,
                   <<"h", "e", "l", "p">>,
                   AdvertisedTestFile},
        existing \in SUBSET {"screenshots", "reports"} :
       Direct("run_tests", [argv |-> argv, existing |-> existing],
              run_tests(argv, existing), run_tests(argv, existing).events)

call_validate_form_state ==
  /\ Ready
  /\ \E controls \in [Fields -> {"absent", "enabled", "disabled"}],
        fault \in FormFaults,
        page \in {q \in MessagePages :
                    /\ q.all = "ok"
                    /\ q.adult_validation_message = Hidden
                    /\ q.infant_validation_message = Hidden
                    /\ \A i \in 1..Len(q.validation_message) :
                         q.validation_message[i] \in
                           {Hidden, [visible |-> "ok", read |-> <<"o", "k">>]}} :
       Direct("validate_form_state",
              [controls |-> controls, fault |-> fault, page |-> page],
              validate_form_state(controls, fault, page), <<>>)

call_test_infant_limit_validation ==
  /\ Ready
  /\ \E adults \in 1..MaxAdults, shown_adults \in 1..MaxAdults,
        shown \in BlockedPages :
       \E fault \in ProbeFaults(adults) :
         Direct("test_infant_limit_validation",
                [adults |-> adults, stepper |-> Stepper(shown_adults),
                 fault |-> fault, shown |-> shown],
                test_infant_limit_validation(adults, Stepper(shown_adults),
                                             fault, shown),
                test_infant_limit_validation(adults, Stepper(shown_adults),
                                             fault, shown).events)

DirectNext ==
  \/ direct_return
  \/ call_test_infant_limit_validation
  \/ call_validate_form_state
  \/ call_run_tests
  \/ call_get_infant_limit_error_message
  \/ call_wait_for_loading_complete
  \/ call_extract_day_from_date
  \/ call_get_error_message
  \/ call_get_validation_messages
  \/ call_wait_for_element
  \/ call_safe_click
  \/ call_safe_fill
  \/ call_close_date_picker

DirectSpec == DirectInit /\ [][DirectNext]_vars

\* ------------------------------------- set_up fixture and test case 1
\* One scenario: the set_up fixture launches a browser, a context and a page
\* and navigates, test case 1 runs on the page, and the fixture's code after
\* the yield closes the context and the browser.  `pc` is the position in
\* the fixture or in the test body, `calls` the page-object operations the
\* test has called, `trace` the driver actions of the last of them.

\* The request is test_data.json as test case 1 reads it; select_passengers()
\* is called with its defaults and select_departure_date gives no return date.

ScenarioInit ==
  /\ booking_data =
       [trip_type |-> "one_way", origin |-> "Hong Kong",
        destination |-> "Tokyo", departure_date |-> Date_15_Sept_2025,
        return_date |-> <<>>, adults |-> 1, infants |-> 0]
  /\ pc = "launch"
  /\ results = [success |-> TRUE, steps_completed |-> <<>>,
                errors |-> <<>>, screenshots |-> <<>>]
  /\ exc = "none"
  /\ op = "none"
  /\ ip = "idle"
  /\ idx = 0
  /\ departure_selected = FALSE
  /\ return_selected = FALSE
  /\ aria_text = "unset"
  /\ departure_day = Unset
  /\ return_day = Unset
  /\ caught = "none"
  /\ ret = "none"
  /\ trace = <<>>
  /\ calls = <<>>
  /\ shots = <<>>
  /\ given = "none"
  /\ value = "none"
  /\ session = NoSession


\* a call of the fixture faults: the fixture raises at this line, and
\* nothing after the line runs
FixtureFault(name) ==
  /\ pc' = "over"
  /\ session' = [session EXCEPT !.faulted = name]

\* browser = playwright.chromium.launch(...)
set_up_launch ==
  /\ pc = "launch"
  /\ \E o \in Outcome :
       IF o = "ok"
       THEN /\ pc' = "new_context"
            /\ session' = [session EXCEPT !.browser = "open",
                                            !.launched = @ + 1]
       ELSE FixtureFault("launch")
  /\ UNCHANGED <<booking_data, results, exc, caught, op, ip, locals, ret,
                 trace, calls, shots, given, value>>

\* context = browser.new_context(no_viewport=True)
set_up_new_context ==
  /\ pc = "new_context"
  /\ \E o \in Outcome :
       IF o = "ok"
       THEN /\ pc' = "new_page"
            /\ session' = [session EXCEPT !.context = "open",
                                            !.contexts = @ + 1]
       ELSE FixtureFault("new_context")
  /\ UNCHANGED <<booking_data, results, exc, caught, op, ip, locals, ret,
                 trace, calls, shots, given, value>>

\* page = context.new_page()
set_up_new_page ==
  /\ pc = "new_page"
  /\ \E o \in Outcome :
       IF o = "ok"
       THEN /\ pc' = "goto"
            /\ session' = [session EXCEPT !.page = "open", !.pages = @ + 1]
       ELSE FixtureFault("new_page")
  /\ UNCHANGED <<booking_data, results, exc, caught, op, ip, locals, ret,
                 trace, calls, shots, given, value>>

\* page.goto(...)
set_up_goto ==
  /\ pc = "goto"
  /\ \E o \in Outcome :
       IF o = "ok"
       THEN pc' = "set_default_timeout" /\ UNCHANGED session
       ELSE FixtureFault("goto")
  /\ UNCHANGED <<booking_data, results, exc, caught, op, ip, locals, ret,
                 trace, calls, shots, given, value>>

\* page.set_default_timeout(30000); yield page
set_up_yield ==
  /\ pc = "set_default_timeout"
  /\ \E o \in Outcome :
       IF o = "ok"
       THEN pc' = "test_one_way" /\ UNCHANGED session
       ELSE FixtureFault("set_default_timeout")
  /\ UNCHANGED <<booking_data, results, exc, caught, op, ip, locals, ret,
                 trace, calls, shots, given, value>>

\* context.close(), the first line after the yield
set_up_close_context ==
  /\ pc = "close_context"
  /\ \E o \in Outcome :
       IF o = "ok"
       THEN /\ pc' = "close_browser"
            /\ session' = [session EXCEPT !.context = "closed",
                                            !.page = "closed"]
       ELSE FixtureFault("context.close")
  /\ UNCHANGED <<booking_data, results, exc, caught, op, ip, locals, ret,
                 trace, calls, shots, given, value>>

\* browser.close(), the last line of the fixture
set_up_close_browser ==
  /\ pc = "close_browser"
  /\ \E o \in Outcome :
       IF o = "ok"
       THEN /\ pc' = "over"
            /\ session' = [session EXCEPT !.browser = "closed"]
       ELSE FixtureFault("browser.close")
  /\ UNCHANGED <<booking_data, results, exc, caught, op, ip, locals, ret,
                 trace, calls, shots, given, value>>

\* the primitives test case 1 calls, by position: select_one_way (step 1),
\* select_passengers (step 2), enter_origin (step 3), enter_destination
\* (step 4) and select_departure_date (step 5), the last three through
\* select_origin, select_destination and select_dates; with the position
\* each starts at and the position of the test that follows it
TestPrimitives ==
  [test_one_way |-> [name |-> "select_one_way", start |-> "probe",
                     next |-> "test_passengers"],
   test_passengers |-> [name |-> "select_passengers", start |-> "open",
                        next |-> "test_confirm"],
   test_origin |-> [name |-> "select_origin", start |-> "open",
                    next |-> "test_destination"],
   test_destination |-> [name |-> "select_destination", start |-> "open",
                         next |-> "test_departure"],
   test_departure |-> [name |-> "select_dates", start |-> "open",
                       next |-> "test_search"]]

\* the test calls the primitive of its position
test_call ==
  /\ pc \in DOMAIN TestPrimitives /\ op = "none"
  /\ Call(TestPrimitives[pc].name, TestPrimitives[pc].start)
  /\ UNCHANGED <<booking_data, pc, results, shots, given, value, session>>

\* the primitive is back: its value is dropped, and a fault that left it
\* goes to the test's except block
test_result ==
  /\ pc \in DOMAIN TestPrimitives /\ ip = "returned"
  /\ pc' = IF ret = "raised" THEN "test_except" ELSE TestPrimitives[pc].next
  /\ Idle
  /\ UNCHANGED <<booking_data, results, exc, shots, given, value, session>>

\* the test calls an operation that is one step here; r is its outcome
TestStep(name, r, next) ==
  /\ calls' = Append(calls, [name |-> name,
                              ret |-> IF r.raised THEN "raised"
                                      ELSE IF r.ret THEN "true" ELSE "false"])
  /\ trace' = r.events
  /\ pc' = IF r.raised THEN "test_except" ELSE next
  /\ UNCHANGED <<booking_data, results, exc, caught, op, ip, locals, ret,
                 shots, given, value, session>>

\* Step 2: flight_page.confirm_passenger_selection()
test_confirm_passenger_selection ==
  /\ pc = "test_confirm" /\ op = "none"
  /\ \E l \in Outcome, v \in Outcome, w \in Outcome, c \in Outcome :
       TestStep("confirm_passenger_selection",
                confirm_passenger_selection(l, v, w, c), "test_origin")

\* Step 6: flight_page.confirm_search_flights()
test_confirm_search_flights ==
  /\ pc = "test_search" /\ op = "none"
  /\ \E v \in Outcome, h \in Outcome, b \in Outcome :
       TestStep("confirm_search_flights", confirm_search_flights(v, h, b),
                "test_wait")

\* is_on_flight_selection_page: true at the first of its three indicators
\* that is visible
is_on_flight_selection_page(w1, w2, w3) ==
  [ret |-> wait_for_element(w1).ret \/ wait_for_element(w2).ret
             \/ wait_for_element(w3).ret,
   raised |-> FALSE,
   events |-> <<>>]

\* Step 7: page.wait_for_timeout(5000), is_on_flight_selection_page() and
\* the assertion on its value
test_validate_navigation ==
  /\ pc = "test_wait" /\ op = "none"
  /\ \E t \in Outcome, w1 \in Outcome, w2 \in Outcome, w3 \in Outcome :
       LET r == is_on_flight_selection_page(w1, w2, w3)
       IN  IF t # "ok"
           THEN pc' = "test_except" /\ UNCHANGED <<calls, trace, session>>
           ELSE /\ calls' = Append(calls,
                                   [name |-> "is_on_flight_selection_page",
                                    ret |-> IF r.ret THEN "true" ELSE "false"])
                /\ trace' = r.events
                /\ IF r.ret
                   THEN /\ pc' = "close_context"
                        /\ session' = [session EXCEPT !.test = "passed"]
                   ELSE pc' = "test_except" /\ UNCHANGED session
  /\ UNCHANGED <<booking_data, results, exc, caught, op, ip, locals, ret,
                 shots, given, value>>

\* except Exception: take_screenshot("oneway_flight_booking_error"); raise
test_except ==
  /\ pc = "test_except" /\ op = "none"
  /\ \E mk \in Outcome, sh \in Outcome :
       shots' = shots \o take_screenshot(<<"oneway_flight_booking_error">>,
                                          mk, sh).shots
  /\ pc' = "close_context"
  /\ session' = [session EXCEPT !.test = "failed"]
  /\ UNCHANGED <<booking_data, results, exc, caught, op, ip, locals, ret,
                 trace, calls, given, value>>

\* the steps of the primitives that test case 1 can take: with one adult, no
\* infant and no return date, select_passengers has no stepper loop to run
\* and select_dates no return loop
ScenarioNext ==
  \/ set_up_launch \/ set_up_new_context \/ set_up_new_page \/ set_up_goto
  \/ set_up_yield \/ set_up_close_context \/ set_up_close_browser
  \/ test_call \/ test_result
  \/ test_confirm_passenger_selection
  \/ test_confirm_search_flights
  \/ test_validate_navigation
  \/ test_except
  \/ select_trip_type
  \/ select_location
  \/ dates_open \/ dates_settle \/ dates_departure \/ dates_departure_settle
  \/ dates_confirm \/ dates_handler
  \/ passengers_open \/ passengers_settle \/ passengers_finish

ScenarioSpec == ScenarioInit /\ [][ScenarioNext]_vars

\* ================================================================ properties
Origin == Get(booking_data, "origin", "")
Destination == Get(booking_data, "destination", "")
DepartureDate == Get(booking_data, "departure_date", <<>>)
ReturnDate == Get(booking_data, "return_date", <<>>)

\* the flow has returned its record
Done == pc = "done"

\* a fault left one of the primitives the flow called
Escaped == \E i \in 1..Len(calls) : calls[i].ret = "raised"

Called(name) == \E i \in 1..Len(calls) : calls[i].name = name

HasStep(name) ==
  \E i \in 1..Len(results.steps_completed) : results.steps_completed[i] = name

HasError(msg) == \E i \in 1..Len(results.errors) : results.errors[i] = msg

\* the driver action was issued by the primitive that ran last
Issued(act, target) ==
  \E i \in 1..Len(trace) : trace[i].act = act /\ trace[i].target = target

\* origin, destination and departure date are all filled in
ValidRequest == Origin # "" /\ Destination # "" /\ DepartureDate # <<>>

FinalShot == <<"booking_flow_complete">>
FailureShot == <<"failure", "booking_flow">>
Taken(name) == \E i \in 1..Len(shots) : shots[i] = name

\* the step name the flow appends when the primitive succeeds
StepNameOf(name) ==
  CASE name \in TripOps -> "trip_type_selected"
    [] name = "select_origin" -> "origin_selected"
    [] name = "select_destination" -> "destination_selected"
    [] name = "select_dates" -> "dates_selected"
    [] name = "select_passengers" -> "passengers_selected"
    [] OTHER -> "passengers_confirmed"

ReturnedTrue(c) == c.ret = "true"

\* position of the first occurrence of x in s (Len(s) + 1 if there is none)
FirstIndex(s, x) == Min({i \in 1..Len(s) : s[i] = x} \cup {Len(s) + 1})

\* C1: perform_complete_booking_flow never raises: whatever the request and
\* whichever driver calls fault, the flow ends by returning a record with
\* exactly the four fields success, steps_completed, errors and screenshots.
C1_FlowNeverRaises ==
  /\ pc # "raised"
  /\ DOMAIN results = {"success", "steps_completed", "errors", "screenshots"}
  /\ results.success \in BOOLEAN
  /\ Done =>
       /\ results.steps_completed \in Seq(STRING)
       /\ Len(results.errors) <= 7
       /\ Len(results.screenshots) <= 1

\* C1 witness: the flow has returned after a fault left one of its steps
C1_Witness == Done /\ Escaped /\ Len(results.screenshots) = 0

\* C2: for a request with origin, destination and departure date filled in,
\* and whatever boolean each primitive returns, the flow calls the trip-type,
\* origin, destination, date and passenger primitives once each, in that
\* order; every call that returned true appended its step name, every call
\* that returned false appended one error, and no failure stopped the flow.
C2_StepsInOrder ==
  (Done /\ ValidRequest /\ ~Escaped) =>
    LET succeeded == SelectSeq(calls, ReturnedTrue)
    IN  /\ Len(calls) >= 5
        /\ calls[1].name \in TripOps
        /\ calls[2].name = "select_origin"
        /\ calls[3].name = "select_destination"
        /\ calls[4].name = "select_dates"
        /\ calls[5].name = "select_passengers"
        /\ \A i \in 6..Len(calls) : calls[i].name = "confirm_passenger_selection"
        /\ Len(calls) <= 6
        /\ results.steps_completed =
             [i \in 1..Len(succeeded) |-> StepNameOf(succeeded[i].name)]
        /\ Len(results.errors) =
             Cardinality({i \in 1..Len(calls) : calls[i].ret = "false"})

\* C2 witness: the origin step failed and the later steps still ran
C2_Witness ==
  /\ Done /\ ValidRequest /\ ~Escaped
  /\ calls[2].ret = "false" /\ calls[4].ret = "false" /\ calls[5].ret = "true"

C4_ValidRequestSucceeds ==
  (Done /\ ValidRequest /\ Len(calls) = 6
        /\ \A i \in 1..Len(calls) : calls[i].ret = "true") =>
    LET steps == results.steps_completed
    IN  /\ results.success = TRUE
        /\ results.errors = <<>>
        /\ FirstIndex(steps, "trip_type_selected") < FirstIndex(steps, "origin_selected")
        /\ FirstIndex(steps, "origin_selected") < FirstIndex(steps, "destination_selected")
        /\ FirstIndex(steps, "destination_selected") < FirstIndex(steps, "dates_selected")
        /\ FirstIndex(steps, "dates_selected") < FirstIndex(steps, "passengers_selected")
        /\ FirstIndex(steps, "passengers_selected") <= Len(steps)

\* C4 witness: a round trip with a return date on which every call succeeded
C4_Witness ==
  /\ Done /\ ValidRequest /\ ReturnDate # <<>>
  /\ Len(calls) = 6
  /\ \A i \in 1..Len(calls) : calls[i].ret = "true"
  /\ calls[1].name = "select_round_trip"

\* C5 as stated: with an empty origin the result has success = false, no
\* origin_selected step and the 'Failed to select origin' error, and the
\* destination, date and passenger steps are still attempted.
C5_Claim ==
  (Done /\ Origin = "") =>
    /\ results.success = FALSE
    /\ ~HasStep("origin_selected")
    /\ HasError(<<"Failed to select origin: ", Origin>>)
    /\ Destination # "" => Called("select_destination")
    /\ DepartureDate # <<>> => Called("select_dates")
    /\ Called("select_passengers")

\* C6: confirm_passenger_selection runs only right after a select_passengers
\* that returned true; passengers_confirmed is appended only after
\* passengers_selected; a failed selection yields the 'Failed to select
\* passengers' error and no click on the confirmation control.
C6_ConfirmOnlyAfterSelection ==
  /\ \A i \in 1..Len(calls) :
       calls[i].name = "confirm_passenger_selection" =>
         /\ i > 1
         /\ calls[i - 1] = [name |-> "select_passengers", ret |-> "true"]
  /\ \A j \in 1..Len(results.steps_completed) :
       results.steps_completed[j] = "passengers_confirmed" =>
         \E k \in 1..(j - 1) : results.steps_completed[k] = "passengers_selected"
  /\ (Done /\ \E i \in 1..Len(calls) :
                 calls[i] = [name |-> "select_passengers", ret |-> "false"]) =>
       /\ HasError(<<"Failed to select passengers">>)
       /\ ~Called("confirm_passenger_selection")
       /\ ~Issued("click", "passenger_confirm_btn")
       /\ ~HasStep("passengers_confirmed")

\* C6 witness: the flow has returned after select_passengers returned false
C6_Witness ==
  /\ Done
  /\ \E i \in 1..Len(calls) :
       calls[i] = [name |-> "select_passengers", ret |-> "false"]

\* C7 as stated: select_origin and select_destination end by returning a
\* boolean; no fault leaves them, whichever driver call faults.
C7_Claim ==
  \A i \in 1..Len(calls) :
    calls[i].name \in LocationOps => calls[i].ret \in {"running", "true", "false"}

\* the opening click of select_origin / select_destination succeeded
OverlayOpened ==
  \E i \in 1..Len(trace) : trace[i] = Ev("click", LocationField(op), "ok")

\* C8 as stated: whenever select_origin or select_destination returns false
\* after its opening click succeeded, an Escape keypress was issued first.
C8_Claim ==
  (op \in LocationOps /\ ip = "returned" /\ ret = "false" /\ OverlayOpened) =>
    Issued("press", "Escape")

\* C9 as stated: when no departure-day template yields a click, select_dates
\* returns false, never clicks the confirmation control, never attempts the
\* return date, and closes the date picker.
C9_Claim ==
  (op = "select_dates" /\ ip = "returned"
      /\ caught = "Could not find departure date") =>
    /\ ret = "false"
    /\ ~Issued("click", "date_continue_btn")
    /\ return_day = Unset
    /\ ~Issued("click", "return_day")
    /\ Issued("call", "close_date_picker")

\* C10 as stated: with a return date, once the departure day is clicked and
\* the return-date step has begun, every way in which the return day is not
\* selected (no template visible, the label unreadable or absent, the click
\* failing) still ends in the confirmation click, whose outcome is the result.
C10_Claim ==
  (op = "select_dates" /\ ip = "returned" /\ departure_selected
      /\ return_day # Unset /\ ~return_selected /\ caught # "locator") =>
    /\ ~Issued("call", "close_date_picker")
    /\ ret \in {"true", "false"}
    /\ ret = "true" <=> Issued("click", "date_continue_btn")
                        /\ trace[Len(trace)] = Ev("click", "date_continue_btn", "ok")

\* the return-date loop of select_dates issues a driver action on the cell
\* in this step (the label read in the step is then aria_text')
ReturnCellAction ==
  op = "select_dates" /\ ip = "return" /\ trace' # trace

\* C11 as stated: a return-day cell whose live-region label contains
\* 'Selected for departure' is not clicked: no click is issued in a step of
\* the return-date loop that read such a label.
C11_Original ==
  [][(op = "select_dates" /\ ip = "return"
        /\ aria_text' = "Selected for departure") => trace' = trace]_vars

\* C11 amended: the return-date step clicks a candidate cell only when its
\* label contains 'Selected for departure' or does not contain 'Selected for
\* return'; the only cell it skips is one marked selected for return and not
\* for departure, and the cell that ends the loop was clicked successfully.
C11_ClickUnlessSelectedForReturn ==
  [][/\ ReturnCellAction =>
          /\ aria_text' \in {"Selected for departure", "other"}
          /\ trace' = Append(trace, trace'[Len(trace')])
          /\ trace'[Len(trace')].act = "click"
          /\ trace'[Len(trace')].target = "return_day"
     /\ (op = "select_dates" /\ ip = "return" /\ return_selected') =>
          /\ ReturnCellAction
          /\ trace'[Len(trace')] = Ev("click", "return_day", "ok")
     /\ (op = "select_dates" /\ ip = "return"
           /\ aria_text' = "Selected for return") => trace' = trace]_vars

\* C11 witness: the return day was selected by clicking a cell whose label
\* contains 'Selected for departure'
C11_Witness ==
  /\ op = "select_dates" /\ return_selected
  /\ aria_text = "Selected for departure"
  /\ Issued("click", "return_day")

\* C12 as stated: close_date_picker never raises and returns a boolean,
\* whatever the driver does (close button absent, Escape keypress faulting);
\* it returns true on the close-button path and on the Escape-fallback path.
\* (Stated for the calls in which the close glyph's locator was built.)
C12_Claim ==
  (op = "close_date_picker" /\ given.l = "ok") =>
    LET clicked == given.w = "ok" /\ given.c = "ok"
    IN  /\ ~value.raised
        /\ value.ret \in BOOLEAN
        /\ clicked => value.ret
        /\ (~clicked /\ given.e1 = "ok") => value.ret

\* the stepper controls, under either of their two locators
AdultPlus == {"adult_plus", "adult_plus_alt"}
AdultMinus == {"adult_minus", "adult_minus_alt"}
InfantPlus == {"infant_plus", "infant_plus_alt"}

\* positions in the trace of the clicks issued on one of `targets`
Clicks(targets) ==
  {i \in 1..Len(trace) : trace[i].act = "click" /\ trace[i].target \in targets}

\* select_passengers printed one of its 'Could not ...' diagnostics
StoppedEarly == \E i \in 1..Len(trace) : trace[i].act = "log"

Adults == Get(booking_data, "adults", 1)
Infants == Get(booking_data, "infants", 0)

\* select_passengers has returned true without stopping a loop early
PassengersStepped ==
  /\ op = "select_passengers" /\ ip = "returned" /\ ret = "true"
  /\ ~StoppedEarly

\* C13: when every stepper button resolves and every click succeeds,
\* select_passengers(adults, infants) issues exactly max(adults-1, 0)
\* adult-plus clicks and max(1-adults, 0) adult-minus clicks, never both,
\* then exactly `infants` infant-plus clicks, every adult click before every
\* infant click; a counter that starts at 1 then reads `adults`.
C13_StepperClicks ==
  PassengersStepped =>
    LET plus == Cardinality(Clicks(AdultPlus))
        minus == Cardinality(Clicks(AdultMinus))
    IN  /\ \A i \in 1..Len(trace) : trace[i].outcome = "ok"
        /\ plus = Max({Adults - 1, 0})
        /\ minus = Max({1 - Adults, 0})
        /\ ~(plus > 0 /\ minus > 0)
        /\ Cardinality(Clicks(InfantPlus)) = Infants
        /\ \A i \in Clicks(AdultPlus \cup AdultMinus), j \in Clicks(InfantPlus) : i < j
        /\ 1 + plus - minus = Adults
        /\ Len(trace) = 1 + plus + minus + Infants

\* C13 witness: three adults and an infant were stepped to, by two adult
\* increments followed by an infant increment
C13_Witness ==
  /\ PassengersStepped
  /\ Adults = 3 /\ Infants >= 1
  /\ Cardinality(Clicks(AdultPlus)) = 2
  /\ Cardinality(Clicks(InfantPlus)) = Infants

\* the diagnostics of the adult loop and of the infant loop
AdultStop == {"Could not add adult passenger", "Could not remove adult passenger"}
InfantStop == {"Could not add infant"}

\* positions in the trace of the diagnostics among `msgs`
Stops(msgs) ==
  {i \in 1..Len(trace) : trace[i].act = "log" /\ trace[i].target \in msgs}

NoDuplicates(messages) ==
  \A i \in 1..Len(messages), j \in 1..Len(messages) :
    messages[i] = messages[j] => i = j

\* C15 as stated: the list get_validation_messages returns never holds the
\* same text twice, whatever the page shows in the generic validation region
\* and in the adult and infant regions.
C15_Claim ==
  op = "get_validation_messages" =>
    /\ ~value.raised
    /\ NoDuplicates(value.ret)

\* the clicks a trip-type operation may issue: the toggle, its own text
\* option, its own label
TripToggleClick(e) == e.act = "click" /\ e.target = "trip_type_dropdown_button"
TripOptionClick(e) ==
  /\ e.act = "click"
  /\ e.target = IF op = "select_one_way" THEN "text='One way'" ELSE "text='Return'"
TripLabelClick(e) ==
  /\ e.act = "click"
  /\ e.target = IF op = "select_one_way" THEN "trip_type_oneway"
                ELSE "trip_type_roundtrip"

\* C16: select_one_way and select_round_trip raise no fault and return true
\* exactly when their terminal click succeeded.  On the dropdown path the
\* toggle is clicked first and the matching text option last, and the label
\* is never clicked; on the fallback path the label is the only click.
C16_TripTypeTerminalClick ==
  (op \in TripOps /\ ip = "returned") =>
    LET n == Len(trace)
    IN  /\ ret \in {"true", "false"}
        /\ \A i \in 1..n :
             TripToggleClick(trace[i]) \/ TripOptionClick(trace[i])
               \/ TripLabelClick(trace[i])
        /\ (\E i \in 1..n : TripLabelClick(trace[i])) => n = 1
        /\ \A i \in 1..n : TripToggleClick(trace[i]) => i = 1
        /\ \A i \in 1..n : TripOptionClick(trace[i]) => i = n
        /\ n <= 2
        /\ ret = "true" <=>
             /\ n > 0
             /\ trace[n].outcome = "ok"
             /\ TripOptionClick(trace[n]) \/ TripLabelClick(trace[n])

\* C16 witness: select_round_trip opened the dropdown and its click on the
\* 'Return' option succeeded
C16_Witness ==
  /\ op = "select_round_trip" /\ ip = "returned" /\ ret = "true"
  /\ trace = <<Ev("click", "trip_type_dropdown_button", "ok"),
               Ev("click", "text='Return'", "ok")>>

\* C16 witness of the fallback: select_one_way clicked its label only
C16_WitnessLabel ==
  /\ op = "select_one_way" /\ ip = "returned" /\ ret = "true"
  /\ trace = <<Ev("click", "trip_type_oneway", "ok")>>

\* one of the driver calls of the operation called on its own faulted
DriverFaulted == \E k \in DOMAIN given : given[k] = "fault"

\* C17: wait_for_element, safe_click and safe_fill never raise; on a
\* visibility timeout or on a fault of the wait, the click, the clear or the
\* fill each returns false.
C17_WrappersNeverRaise ==
  op \in {"wait_for_element", "safe_click", "safe_fill"} =>
    /\ ~value.raised
    /\ value.ret \in BOOLEAN
    /\ DriverFaulted => value.ret = FALSE

\* C17 witness: safe_fill returned false after its fill faulted
C17_Witness ==
  /\ op = "safe_fill"
  /\ given = [w |-> "ok", cl |-> "ok", f |-> "fault"]
  /\ value = [raised |-> FALSE, ret |-> FALSE]

\* C18: safe_click issues its click, and safe_fill its clear followed by its
\* fill, only after the visibility wait succeeded; safe_fill never writes
\* the text without having cleared (a faulting clear suppresses the fill);
\* each returns true exactly when the wait and all its driver actions
\* completed without fault.
C18_WaitThenAct ==
  /\ op = "safe_click" =>
       /\ trace # <<>> => given.w = "ok"
       /\ given.w = "ok" => trace = <<Ev("click", "locator", given.c)>>
       /\ value.ret <=> (given.w = "ok" /\ given.c = "ok")
  /\ op = "safe_fill" =>
       /\ trace # <<>> => given.w = "ok"
       /\ given.w = "ok" =>
            /\ Len(trace) >= 1
            /\ trace[1] = Ev("clear", "locator", given.cl)
       /\ \A i \in 1..Len(trace) :
            trace[i].act = "fill" =>
              /\ i = 2
              /\ trace[1] = Ev("clear", "locator", "ok")
              /\ trace[i] = EvText("fill", "locator", "text", given.f)
       /\ (given.w = "ok" /\ given.cl = "ok") => Len(trace) = 2
       /\ Len(trace) <= 2
       /\ value.ret <=> (given.w = "ok" /\ given.cl = "ok" /\ given.f = "ok")

\* C18 witness: the clear of safe_fill faulted and no text was written
C18_Witness ==
  /\ op = "safe_fill"
  /\ given.w = "ok" /\ given.cl = "fault"
  /\ trace = <<Ev("clear", "locator", "fault")>>
  /\ value.ret = FALSE

\* positions in the trace of the Enter keypresses
EnterPresses ==
  {i \in 1..Len(trace) : trace[i].act = "press" /\ trace[i].target = "Enter"}

\* positions of the fill of the search input that went through, and of the
\* click on the first suggestion that went through
Filled ==
  {i \in 1..Len(trace) : trace[i].act = "fill" /\ trace[i].outcome = "ok"}
SuggestionClicked ==
  {i \in 1..Len(trace) : trace[i] = Ev("click", "first_suggestion", "ok")}

RECURSIVE StartOf(_, _)
StartOf(messages, k) ==
  IF k = 1 THEN 1 ELSE StartOf(messages, k - 1) + Len(messages[k - 1]) + 2

\* text is the messages in order with "; " between neighbours
JoinedBySemicolon(text, messages) ==
  LET n == Len(messages)
  IN  /\ Len(text) = StartOf(messages, n) + Len(messages[n]) - 1
      /\ \A k \in 1..n :
           SubSeq(text, StartOf(messages, k),
                  StartOf(messages, k) + Len(messages[k]) - 1) = messages[k]
      /\ \A k \in 2..n :
           /\ text[StartOf(messages, k) - 2] = ";"
           /\ text[StartOf(messages, k) - 1] = " "

\* C20: get_error_message never raises; it returns the validation messages
\* joined with '; ' whenever get_validation_messages is non-empty, without
\* consulting the generic error region; otherwise the generic error region's
\* text if that region is visible, and None if neither is available.
C20_ErrorMessagePreference ==
  op = "get_error_message" =>
    LET validation_messages == get_validation_messages(given).ret
        region == given.error_message
    IN  /\ ~value.raised
        /\ validation_messages # <<>> =>
             /\ JoinedBySemicolon(value.ret, validation_messages)
             /\ trace = <<>>
        /\ (validation_messages = <<>> /\ region.visible = "ok"
              /\ region.read # ReadFault) =>
             /\ value.ret = region.read
             /\ trace = <<Ev("wait_for", "error_message", "ok")>>
        /\ (validation_messages = <<>> /\ region.visible # "ok") =>
             /\ value.ret = NoneValue
             /\ trace = <<Ev("wait_for", "error_message", "fault")>>
        /\ (validation_messages = <<>> /\ region.visible = "ok"
              /\ region.read = ReadFault) => value.ret = NoneValue

\* C20 witness: two validation messages were returned joined, although the
\* generic error region was visible as well
C20_Witness ==
  /\ op = "get_error_message"
  /\ value.ret = <<"a", ";", " ", "b">>
  /\ given.error_message.visible = "ok"
  /\ given.error_message.read = <<"b">>

\* C20 witness of the fallback: no validation message, the generic region's
\* text is returned
C20_WitnessFallback ==
  /\ op = "get_error_message"
  /\ get_validation_messages(given).ret = <<>>
  /\ value.ret = <<"a", " ">>

\* C29: in every record perform_complete_booking_flow returns (and at every
\* point while it is being built) success is true if and only if errors is
\* empty.
C29_SuccessIffNoErrors ==
  results.success <=> (results.errors = <<>>)

\* C29 witness: the flow has returned a record with success = false and the
\* errors of two failed steps
C29_Witness ==
  /\ Done /\ ~results.success
  /\ Len(results.errors) = 2 /\ ~Escaped

\* the six step names of the flow
AllSteps ==
  {"trip_type_selected", "origin_selected", "destination_selected",
   "dates_selected", "passengers_selected", "passengers_confirmed"}

\* C30 as stated: a record returned with success = true has all six step
\* names in steps_completed, for every request, one whose departure_date is
\* missing or empty included.
C30_Claim ==
  (Done /\ results.success) => \A name \in AllSteps : HasStep(name)

\* the value of a string of decimal digits
RECURSIVE DigitsValue(_)
DigitsValue(s) ==
  IF s = <<>> THEN 0
  ELSE 10 * DigitsValue(SubSeq(s, 1, Len(s) - 1))
       + (CHOOSE n \in 0..9 : Digit(n) = s[Len(s)])

\* C25: for every day d in 1..31, _extract_day_from_date applied to any of
\* the three supported spellings of the date yields the same day token: the
\* digits of d, at most two characters, with no leading zero.
C25_SameDayToken ==
  op = "_extract_day_from_date" =>
    /\ ~value.raised
    /\ Len(value.ret) \in 1..2
    /\ value.ret[1] # "0"
    /\ \A i \in 1..Len(value.ret) : \E n \in 0..9 : value.ret[i] = Digit(n)
    /\ DigitsValue(value.ret) = given.day
    /\ \A spelling \in Spellings :
         extract_day_from_date(DateString(given.day, spelling)).ret = value.ret

\* C25 witness: the zero-padded ISO spelling of the 5th yielded "5"
C25_Witness ==
  /\ op = "_extract_day_from_date"
  /\ given.date_str = <<"2", "0", "2", "5", "-", "0", "9", "-", "0", "5">>
  /\ value.ret = <<"5">>

\* C27 as stated: wait_for_loading_complete returns True when loading is
\* complete, and False when a visible loading indicator has not become
\* hidden within the timeout.
C27_Claim ==
  op = "wait_for_loading_complete" =>
    /\ ~value.raised
    /\ (given.v = "ok" /\ given.h = "fault") => value.ret = FALSE
    /\ (given.v # "ok" \/ given.h = "ok") => value.ret = TRUE

\* the two characters are the same letter, whatever their case
SameLetter(c, d) == LowerChar(c) = LowerChar(d)

\* the message contains one of the five keywords, case-insensitively
MentionsKeyword(message) ==
  \E k \in 1..Len(infant_keywords) :
    \E at \in 0..(Len(message) - Len(infant_keywords[k])) :
      \A j \in 1..Len(infant_keywords[k]) :
        SameLetter(message[at + j], infant_keywords[k][j])

\* C21: get_infant_limit_error_message returns a message if and only if some
\* current validation message contains, case-insensitively, one of the
\* keywords infant, adult, booked, online, every; the message returned is
\* the first such message in list order, unmodified; otherwise None.
C21_FirstKeywordMessage ==
  op = "get_infant_limit_error_message" =>
    LET messages == get_validation_messages(given).ret
    IN  /\ ~value.raised
        /\ (value.ret # NoneValue) <=>
             \E i \in 1..Len(messages) : MentionsKeyword(messages[i])
        /\ value.ret # NoneValue =>
             \E i \in 1..Len(messages) :
               /\ messages[i] = value.ret
               /\ MentionsKeyword(messages[i])
               /\ \A j \in 1..(i - 1) : ~MentionsKeyword(messages[j])

\* C21 witness: the second message, with its keyword in mixed case, was
\* returned as it is shown, after a first message without a keyword
C21_Witness ==
  /\ op = "get_infant_limit_error_message"
  /\ get_validation_messages(given).ret =
       <<<<"i", "n", "f", "a", "n">>, <<"1", " ", "I", "n", "f", "a", "n", "t", " ", "m", "a", "x">>, <<"O", "N", "L", "I", "N", "E">>>>
  /\ value.ret = <<"1", " ", "I", "n", "f", "a", "n", "t", " ", "m", "a", "x">>

\* the directory exists when the run starts: it existed before, or it was
\* made by an event ahead of the run event
DirectoryReady(directory) ==
  \/ directory \in given.existing
  \/ \E i \in 1..Len(trace) :
       /\ trace[i].act = "makedirs"
       /\ trace[i].target = directory
       /\ \A j \in 1..i : trace[j].act # "run"

\* C28: the runner dispatches on its first argument: none runs all tests,
\* smoke runs the smoke tests, regression the regression tests, and the test
\* file name advertised in the usage text runs that file; the screenshots
\* and reports directories exist before any run.
C28_Claim ==
  op = "run_tests" =>
    /\ given.argv = NoArgument => value.ret.run = "all"
    /\ given.argv = <<"s", "m", "o", "k", "e">> => value.ret.run = "smoke"
    /\ given.argv = <<"r", "e", "g", "r", "e", "s", "s", "i", "o", "n">> => value.ret.run = "regression"
    /\ given.argv = AdvertisedTestFile =>
         value.ret = [run |-> "specific", test_file |-> AdvertisedTestFile]
    /\ DirectoryReady("screenshots") /\ DirectoryReady("reports")

\* C23: when no driver call faults, validate_form_state returns field_states
\* with exactly the five keys, each with enabled false whenever present is
\* false; is_valid holds if and only if all five controls are present and
\* there is no validation message; every absent control and every validation
\* message is in errors; a disabled search button adds a warning and leaves
\* is_valid as it is.
C23_FormSnapshot ==
  (op = "validate_form_state" /\ given.fault = NoFault) =>
    LET state == value.ret
        messages == get_validation_messages(given.page).ret
        absent == {f \in Fields : given.controls[f] = "absent"}
    IN  /\ ~value.raised
        /\ DOMAIN state.field_states = Fields
        /\ \A f \in Fields :
             /\ state.field_states[f].present = (f \notin absent)
             /\ ~state.field_states[f].present =>
                  ~state.field_states[f].enabled
        /\ state.is_valid <=> (absent = {} /\ messages = <<>>)
        /\ \A f \in absent : \E i \in 1..Len(state.errors) :
             state.errors[i].kind = "not found" /\ state.errors[i].field = f
        /\ \A k \in 1..Len(messages) : \E i \in 1..Len(state.errors) :
             state.errors[i].kind = "message"
               /\ state.errors[i].text = messages[k]
        /\ given.controls["search_button"] = "disabled" =>
             state.warnings = <<"Search flights button is disabled">>

\* C23 witness: a form with every control present, the search button
\* disabled and no message is valid and carries the warning
C23_Witness ==
  /\ op = "validate_form_state"
  /\ given.fault = NoFault
  /\ \A f \in Fields : given.controls[f] # "absent"
  /\ given.controls["search_button"] = "disabled"
  /\ ~value.ret.field_states["search_button"].enabled
  /\ value.ret.is_valid
  /\ value.ret.warnings # <<>>
  /\ value.ret.errors = <<>>

\* the fixture and the test have run to their end
SessionOver == pc = "over"

\* C24: for every scenario the set_up fixture launches exactly one browser,
\* one context and one page, and every browser it launched is closed when
\* the fixture is over: after a passed or a failed scenario, and also when
\* the initial navigation faults or when closing the context faults.
C24_Claim ==
  (SessionOver /\ session.faulted \in {"none", "goto", "context.close"}) =>
    /\ session.launched = 1 /\ session.contexts = 1 /\ session.pages = 1
    /\ session.browser = "closed"

\* the operation was called by the test and is the last call it made
LastCall(name) == calls # <<>> /\ calls[Len(calls)].name = name

\* C26: test case 1 clicks the Search Flights button after the departure
\* date is selected and before it checks is_on_flight_selection_page: when
\* its step 6, confirm_search_flights, is back with the button found, a
\* click on the button has been issued.
C26_Claim ==
  (pc = "test_wait" /\ LastCall("confirm_search_flights")
     /\ calls[Len(calls)].ret = "true") =>
    Issued("click", "search_flights_btn")

\* positions in the trace where click_infant_plus is called
Attempts ==
  {i \in 1..Len(trace) :
     trace[i].act = "call" /\ trace[i].target = "click_infant_plus"}

\* positions in the trace where the messages are harvested
Harvests ==
  {i \in 1..Len(trace) :
     trace[i].act = "call" /\ trace[i].target = "get_validation_messages"}

\* the stepper and its page when the probe is over
StepperAfter ==
  infant_attempts(1, given.adults + 1, given.stepper, given.fault).stepper
PageAfter == StepperPage(StepperAfter, given.shown)

====
